---------------------------- MODULE Spec2Model ----------------------------
(***************************************************************************)
(* A model of websvr (src/websvr/websvr.js): the pattern matcher, the      *)
(* filter chain, the parsing pipeline, handler dispatch and the session    *)
(* lifecycle.                                                              *)
(*                                                                         *)
(* Strings are sequences of one-character strings: "/m" is <<"/", "m">>.   *)
(***************************************************************************)
EXTENDS Integers, Sequences, FiniteSets, TLC

\* ------------------------------------------------------------------------
\* Bounds of the model
\* ------------------------------------------------------------------------

\* longest request URL the matcher specification enumerates
MaxUrlLen == 4

\* requests of one run
MaxRequests == 2

\* ------------------------------------------------------------------------
\* JavaScript string primitives
\* ------------------------------------------------------------------------

\* the value of a missing array element (urls[i] past the end); it is a
\* sequence no string of the model equals
Undefined == <<"undefined">>

\* String.prototype.charAt: "" past either end
CharAt(s, i) == IF i >= 0 /\ i < Len(s) THEN s[i + 1] ELSE ""

\* does t occur in s at 0-based offset i
OccursAt(s, t, i) ==
  /\ i >= 0
  /\ i + Len(t) <= Len(s)
  /\ \A k \in 1..Len(t) : s[i + k] = t[k]

\* String.prototype.indexOf: the FIRST offset of t in s, or -1
IndexOf(s, t) ==
  LET hits == {i \in 0..Len(s) : OccursAt(s, t, i)}
  IN  IF hits = {} THEN -1 ELSE CHOOSE i \in hits : \A j \in hits : i <= j

\* String.prototype.substr(from, len)
Substr(s, from, len) ==
  LET a == IF from > Len(s) THEN Len(s) ELSE from
      n == IF a + len > Len(s) THEN Len(s) - a ELSE len
  IN  IF n <= 0 THEN <<>> ELSE SubSeq(s, a + 1, a + n)

\* String.prototype.substr(from)
SubstrFrom(s, from) == Substr(s, from, Len(s))

\* String.prototype.split('/'): the pieces between the separators, "" included
RECURSIVE SplitSlash(_)
SplitSlash(s) ==
  LET i == IndexOf(s, <<"/">>)
  IN  IF i < 0 THEN <<s>>
      ELSE <<Substr(s, 0, i)>> \o SplitSlash(SubstrFrom(s, i + 1))

\* the characters that are hexadecimal digits, among those the model draws
HexDigits == {"2"}

\* the character a %XX escape stands for (%22 is the double quote)
HexChar(a, b) == "\""

\* decodeURIComponent: each %XX escape becomes its character; a "%" that two
\* hexadecimal digits do not follow is a URIError (ok = FALSE)
RECURSIVE DecodeURIComponent(_)
DecodeURIComponent(s) ==
  IF s = <<>> THEN [ok |-> TRUE, val |-> <<>>]
  ELSE IF s[1] = "%"
  THEN IF Len(s) >= 3 /\ s[2] \in HexDigits /\ s[3] \in HexDigits
       THEN LET r == DecodeURIComponent(SubstrFrom(s, 3))
            IN  [ok |-> r.ok, val |-> <<HexChar(s[2], s[3])>> \o r.val]
       ELSE [ok |-> FALSE, val |-> <<>>]
  ELSE LET r == DecodeURIComponent(Tail(s))
       IN  [ok |-> r.ok, val |-> <<s[1]>> \o r.val]

\* ------------------------------------------------------------------------
\* Mapper: the pattern matcher
\* ------------------------------------------------------------------------

\* the three results of a match: false, true, or a parameter map
NoMatch == [tag |-> "false", map |-> <<>>]
Matched == [tag |-> "true", map |-> <<>>]
Params(m) == [tag |-> "params", map |-> m]

\* JavaScript truthiness of a match result (a parameter map is an object)
Truthy(r) == r.tag # "false"

\* params[name] = val
PutParam(m, name, val) ==
  [n \in DOMAIN m \cup {name} |-> IF n = name THEN val ELSE m[n]]

\* _.extend(tar, obj)
Extend(tar, obj) ==
  [n \in DOMAIN tar \cup DOMAIN obj |-> IF n \in DOMAIN obj THEN obj[n] ELSE tar[n]]

\* the loop of parseUrl over the expression's parts, from part i (0-based)
RECURSIVE ParseUrlLoop(_, _, _, _, _)
ParseUrlLoop(parts, urls, start, i, params) ==
  IF i >= Len(parts) THEN Params(params)
  ELSE LET part  == parts[i + 1]
           param == IF i + start < Len(urls) THEN urls[i + start + 1] ELSE Undefined
       IN  IF CharAt(part, 0) = ":"
           THEN LET paramName == SubstrFrom(part, 1)
                    arg == IF param = Undefined THEN <<>> ELSE param
                    dec == DecodeURIComponent(arg)
                    val == IF dec.ok THEN dec.val ELSE param
                IN  ParseUrlLoop(parts, urls, start, i + 1, PutParam(params, paramName, val))
           ELSE IF part # param THEN NoMatch
           ELSE ParseUrlLoop(parts, urls, start, i + 1, params)

\* mutant of StripQuery: the query string is left on the URL
StripQueryNever(reqUrl) == reqUrl

\* the request URL with its query string removed, as parseUrl removes it
StripQuery(reqUrl) ==
  LET idx == IndexOf(reqUrl, <<"?">>)
  IN  IF idx > 0 THEN Substr(reqUrl, 0, idx) ELSE reqUrl

\* mutant of parseUrl: the request segments are always read from position 0
parseUrlFromZero(expression, reqUrl) ==
  ParseUrlLoop(SplitSlash(expression), SplitSlash(StripQuery(reqUrl)), 0, 0, <<>>)

\* Mapper.prototype.parseUrl
parseUrl(expression, reqUrl) ==
  LET url   == StripQuery(reqUrl)
      parts == SplitSlash(expression)
      start == IF CharAt(expression, 0) = "/" THEN 0 ELSE 1
      urls  == SplitSlash(url)
  IN  ParseUrlLoop(parts, urls, start, 0, <<>>)

\* mutant of StrictLiteral: the character after the literal is not looked at
StrictLiteralAnyEnd(reqUrl, expression) ==
  LET idx == IndexOf(reqUrl, expression)
  IN  idx = 0 \/ idx = 1

\* the literal branch of matchString, in handler (strict) mode
StrictLiteral(reqUrl, expression) ==
  LET idx == IndexOf(reqUrl, expression)
  IN  IF idx = 0 \/ idx = 1
      THEN LET lastChar == CharAt(reqUrl, idx + Len(expression))
           IN  lastChar = "" \/ lastChar = "/" \/ lastChar = "?"
      ELSE FALSE

\* Mapper.prototype.matchString
matchString(reqUrl, isHandler, expression) ==
  IF IndexOf(expression, <<"/", ":">>) < 0
  THEN IF isHandler
       THEN (IF StrictLiteral(reqUrl, expression) THEN Matched ELSE NoMatch)
       ELSE (IF IndexOf(reqUrl, expression) > -1 THEN Matched ELSE NoMatch)
  ELSE parseUrl(expression, reqUrl)

\* what one matchString call leaves in req.params: a parameter map is merged
\* into it, true and false leave it alone
MergeParams(params, r) ==
  IF r.tag = "params" THEN Extend(params, r.map) ELSE params

\* mutant of matchArray: every element is tried and every matching element's
\* parameters are merged
RECURSIVE MatchArrayAllLoop(_, _, _, _, _, _)
MatchArrayAllLoop(reqUrl, isHandler, expression, i, params, res) ==
  IF i >= Len(expression) THEN [res |-> res, params |-> params, calls |-> i]
  ELSE LET r == matchString(reqUrl, isHandler, expression[i + 1])
       IN  MatchArrayAllLoop(reqUrl, isHandler, expression, i + 1,
                             MergeParams(params, r), res \/ Truthy(r))

matchArrayAll(reqUrl, isHandler, expression, params) ==
  MatchArrayAllLoop(reqUrl, isHandler, expression, 0, params, FALSE)

\* the for loop of Mapper.prototype.match over an Array expression, from
\* element i (0-based): the result, req.params afterwards, and the number of
\* elements matchString was called on
RECURSIVE MatchArrayLoop(_, _, _, _, _)
MatchArrayLoop(reqUrl, isHandler, expression, i, params) ==
  IF i >= Len(expression) THEN [res |-> FALSE, params |-> params, calls |-> i]
  ELSE LET r == matchString(reqUrl, isHandler, expression[i + 1])
       IN  IF Truthy(r)
           THEN [res |-> TRUE, params |-> MergeParams(params, r), calls |-> i + 1]
           ELSE MatchArrayLoop(reqUrl, isHandler, expression, i + 1,
                               MergeParams(params, r))

\* Mapper.prototype.match, case Array
matchArray(reqUrl, isHandler, expression, params) ==
  MatchArrayLoop(reqUrl, isHandler, expression, 0, params)


\* ------------------------------------------------------------------------
\* State
\* ------------------------------------------------------------------------

VARIABLES
  Settings,      \* the Settings object, after init() merged the options into it
  SessionStore,  \* the store in use: "MemoryStore" or "FileStore"
  filters,       \* Filter.filters
  handlers,      \* Handler.handlers
  list,          \* MemoryStore's list: session id -> session object (a heap id)
  files,         \* the session directory: session id -> the file's JSON content
  fsOps,         \* the file-system operations issued and not yet completed
  heap,          \* the session objects of the process, by object id
  now,           \* +new Date()
  reqs,          \* the requests of the run, by arrival number
  mExpr,         \* matcher specification: the expression
  mUrl,          \* matcher specification: the request URL
  mStrict,       \* matcher specification: isHandler
  mRes,          \* matcher specification: the result of the call, or NotCalled
  registered,    \* history: the filter registrations made, in the order made
  sweep,         \* history: when clearHandler last ran and what its runs deleted
  tpl,           \* Template: the template files, templatePool, the reads in
                 \* flight and the renders made
  assigned,      \* history: the assignments made to self.sessionStore
  uncaught       \* history: the exceptions thrown in callbacks of the file
                 \* system that nothing catches

vars == <<Settings, SessionStore, filters, handlers, list, files, fsOps, heap,
          now, reqs, mExpr, mUrl, mStrict, mRes, registered, sweep, tpl, assigned,
          uncaught>>

serverVars == <<Settings, SessionStore, filters, handlers, list, files, fsOps,
                heap, now, reqs, registered, sweep, tpl, assigned, uncaught>>

matchVars == <<mExpr, mUrl, mStrict, mRes>>

sideVars == <<sweep, tpl, assigned, uncaught>>

\* ------------------------------------------------------------------------
\* Mapper and the registries
\* ------------------------------------------------------------------------

\* the expression of a rule: none (a general filter), a string, or an Array of
\* strings
NoExpression == [kind |-> "none", str |-> <<>>]
StrExpression(s) == [kind |-> "string", str |-> s]
ArrayExpression(l) == [kind |-> "array", str |-> <<>>, list |-> l]

\* the options argument of a registration: absent, a string (the post mode),
\* or an object whose keys are copied onto the mapper
NoOptions == [type |-> "undefined", post |-> "none", file |-> FALSE, session |-> FALSE]
PostOptions(mode) == [type |-> "string", post |-> mode, file |-> FALSE, session |-> FALSE]
FileOptions == [type |-> "object", post |-> "none", file |-> TRUE, session |-> FALSE]
SessionOptions == [type |-> "object", post |-> "none", file |-> FALSE, session |-> TRUE]

\* new Mapper(expression, handler, options); handler is the handler's
\* constructor name
Mapper(expression, handler, options) ==
  [expression |-> expression,
   handler    |-> handler,
   post       |-> options.post,
   file       |-> IF options.type = "object" THEN options.file ELSE FALSE,
   session    |-> IF options.type = "object" THEN options.session ELSE FALSE,
   before     |-> FALSE]

\* Mapper.prototype.before(func): a function given becomes the rule's _before
MapperBefore(mapper, func) ==
  IF func THEN [mapper EXCEPT !.before = TRUE] ELSE mapper

\* Mapper.prototype.match on a request URL
match(mapper, reqUrl, isHandler) ==
  IF mapper.expression.kind = "none" THEN TRUE
  ELSE IF mapper.expression.kind = "array"
  THEN matchArray(reqUrl, isHandler, mapper.expression.list, <<>>).res
  ELSE Truthy(matchString(reqUrl, isHandler, mapper.expression.str))

\* Filter.filter: the new mapper is pushed at the end of the list
FilterFilter(fs, expression, options) ==
  Append(fs, Mapper(expression, "Function", options))

\* Filter.session: Filter.filter, then mapper.session = true
FilterSession(fs, expression, options) ==
  Append(fs, [Mapper(expression, "Function", options) EXCEPT !.session = TRUE])

\* mutant of FilterFile: the mapper is pushed at the end of the list
FilterFileAppend(fs, expression, options) ==
  Append(fs, [Mapper(expression, "Function", options) EXCEPT !.file = TRUE])

\* Filter.file: mapper.file = true, spliced in at the top of the list
FilterFile(fs, expression, options) ==
  <<[Mapper(expression, "Function", options) EXCEPT !.file = TRUE]>> \o fs

\* Handler.url: the new mapper is pushed at the end of the list
HandlerUrl(hs, expression, handler, options) ==
  Append(hs, Mapper(expression, handler, options))

Range(f) == {f[i] : i \in DOMAIN f}


\* ------------------------------------------------------------------------
\* Requests, responses and session objects
\* ------------------------------------------------------------------------

\* the keys and values handlers put in a session
FirstKey == "k"
SecondKey == "j"
Keys == {FirstKey, SecondKey}
Vals == {"v"}
Unset == "unset"

\* a session object: __lastAccessTime (0: the property is missing) and the keys
EmptyObject == [last |-> 0, data |-> [k \in Keys |-> Unset]]
NewSessionObject(t) == [last |-> t, data |-> [k \in Keys |-> Unset]]

\* the name of the session-id cookie (sidKey)
sidKey == "_wsid"

\* a request that sent no Cookie header
NoCookie == <<>>

\* a request that sent no If-Modified-Since header; times are milliseconds
\* since the epoch
NoHeader == -1

\* req.session before a SessionParser is attached; val = 0 is null
NoSession == [has |-> FALSE, sid |-> <<>>, val |-> 0]

\* a response before anything was written to it
NewResponse ==
  [ends        |-> 0,       \* calls of res.end
   headersSent |-> FALSE,
   statusCode  |-> 200,
   body        |-> <<>>,    \* what the first res.end sent
   bodies      |-> <<>>,    \* what each call of res.end was given
   lastModified |-> FALSE,  \* the Last-Modified header is set
   cookies     |-> <<>>,    \* res.cookies, as [name, value] pairs
   setCookie   |-> <<>>]    \* the Set-Cookie header

\* what fs.stat hands to its callback: an error, or the kind of the path and
\* its modification time
NoStat == [kind |-> "none", mtime |-> 0]
NoSuchPath == [kind |-> "error", mtime |-> 0]
FileAt(mtime) == [kind |-> "file", mtime |-> mtime]
Directory == [kind |-> "directory", mtime |-> 0]
OtherPath == [kind |-> "other", mtime |-> 0]

\* a request that has not arrived
NoRequest ==
  [open       |-> FALSE,
   url        |-> <<>>,
   cookie     |-> NoCookie,  \* the _wsid value of the Cookie header
   since      |-> NoHeader,  \* the time of the If-Modified-Since header
   idx        |-> 0,         \* FilterChain.idx
   visited    |-> <<>>,      \* the filter positions next() fetched a rule at
   dispatched |-> <<>>,      \* per run of the chain's callback: the handler
                             \* position acted on, or 0 for fileHandler
   cookies    |-> FALSE,     \* req.cookies is set
   body       |-> "undefined",
   bodyReads  |-> 0,         \* how often the request stream was consumed
   session    |-> NoSession,
   created    |-> FALSE,     \* SessionParser.create ran for this request
   gets       |-> 0,         \* calls of SessionStore.get for this request
   checkedAt  |-> 0,         \* when getSession ran for this request
   got        |-> EmptyObject,  \* the session the store handed to getSession
   dels       |-> <<>>,      \* the ids SessionStore.del was called with
   updates    |-> 0,         \* calls of SessionStore.set for this request
   ops        |-> <<>>,      \* the store operations made for this request and
                             \* the store each one went to
   stored     |-> EmptyObject,  \* what update() last handed to the store
   passes     |-> <<>>,      \* the runs of Parser for this request
   calls      |-> 0,         \* next() and end() calls made by handler code
   statics    |-> 0,         \* calls of fileHandler
   stats      |-> 0,         \* fs.stat calls of fileHandler in flight
   stat       |-> NoStat,    \* what fs.stat last handed to fileHandler
   exists     |-> 0,         \* fs.exists calls of handleDefault in flight
   lists      |-> 0,         \* fs.readdir calls of ListDir.list in flight
   reads      |-> 0,         \* fs.readFile calls of writeFile in flight
   fileReads  |-> 0,         \* fs.readFile calls writeFile made
   sets       |-> {},        \* the keys req.session.set was called with
   readErrs   |-> 0,         \* fs.readFile calls of FileStore.get that failed
   throws     |-> <<>>,      \* the values handlers threw, and whether the throw
                             \* left the pipeline
   res        |-> NewResponse]

\* the request as requestHandler receives it
NewRequest(url, cookie, since) ==
  [NoRequest EXCEPT !.open = TRUE, !.url = url, !.cookie = cookie, !.since = since]

\* one run of Parser(req, res, mapper): the rule, where the run stands, the
\* stages it entered in order, and what its handler did
NewPass(reg, i, mapper, base) ==
  [reg    |-> reg,       \* "filter" or "handler"
   i      |-> i,         \* the rule's position in its registry
   mapper |-> mapper,
   at     |-> "start",   \* form, body, store: waiting for that callback
   stages |-> <<>>,
   nexts  |-> 0,         \* req.filter.next() calls of the handler
   base   |-> base,      \* next() calls handlers had made when the run began
   seen   |-> EmptyObject]  \* the session's value when the handler was entered

\* the state one synchronous run of the code reads and writes
World(n) == [n |-> n, r |-> reqs[n], list |-> list, fsOps |-> fsOps, heap |-> heap]

\* the pass p of the world's request, changed
SetPass(w, p, pass) == [w EXCEPT !.r.passes[p] = pass]

EnterStage(w, p, stage, at) ==
  [w EXCEPT !.r.passes[p].stages = Append(@, stage), !.r.passes[p].at = at]

\* ------------------------------------------------------------------------
\* Session stores
\* ------------------------------------------------------------------------

\* the call SessionStore.<op> enters the store that SessionStore names now
Called(w, op) == [w EXCEPT !.r.ops = Append(@, [op |-> op, store |-> SessionStore])]

\* MemoryStore.set / FileStore.set (JSON.stringify copies the object now, the
\* write lands later); what a store of the application keeps is its own
StoreSet(w, sid, val) ==
  CASE SessionStore = "MemoryStore" ->
         [Called(w, "set") EXCEPT !.list = [s \in DOMAIN w.list \cup {sid} |->
                                              IF s = sid THEN val ELSE w.list[s]]]
    [] SessionStore = "FileStore" ->
         [Called(w, "set") EXCEPT
            !.fsOps = @ \cup {[op |-> "writeFile", sid |-> sid, content |-> w.heap[val]]}]
    [] OTHER -> Called(w, "set")

\* MemoryStore.del / FileStore.del
StoreDel(w, sid) ==
  CASE SessionStore = "MemoryStore" ->
         [Called(w, "del") EXCEPT !.list = [s \in DOMAIN w.list \ {sid} |-> w.list[s]],
                                  !.r.dels = Append(@, sid)]
    [] SessionStore = "FileStore" ->
         [Called(w, "del") EXCEPT
            !.fsOps = @ \cup {[op |-> "unlink", sid |-> sid, content |-> EmptyObject]},
            !.r.dels = Append(@, sid)]
    [] OTHER -> [Called(w, "del") EXCEPT !.r.dels = Append(@, sid)]

\* SessionParser.prototype.update; a session whose value is still being read
\* has nothing to store
SessionUpdate(w) ==
  IF w.r.session.has /\ w.r.session.val # 0
  THEN StoreSet([w EXCEPT !.r.stored = w.heap[w.r.session.val],
                          !.r.updates = @ + 1],
                w.r.session.sid, w.r.session.val)
  ELSE w

\* ------------------------------------------------------------------------
\* Response
\* ------------------------------------------------------------------------

\* the bodies the server itself sends, and what stands for a handler's body
\* and for the content of a static file
RejectionBody == <<"This is not a valid request">>
NotFoundBody == <<"File not found!">>
StringBody == <<"handler">>
UserBody == <<"user">>
FileBody == <<"data">>
NoBody == <<>>
ErrorBody == <<"<pre>", "error", "</pre>">>

\* res.writeHead(statusCode): the header is stored; after end() it is a no-op
WriteHead(w, statusCode) ==
  IF w.r.res.ends > 0
  THEN w
  ELSE [w EXCEPT !.r.res.headersSent = TRUE, !.r.res.statusCode = statusCode]

\* res.setHeader("Last-Modified", ...); after end() it is a no-op
SetLastModified(w) ==
  IF w.r.res.ends > 0 THEN w ELSE [w EXCEPT !.r.res.lastModified = TRUE]

\* the res.end that requestHandler installs
ResEnd(w, body) ==
  LET res == w.r.res
      hdr == IF ~res.headersSent /\ Len(res.cookies) > 0 THEN res.cookies ELSE res.setCookie
      w1  == [w EXCEPT !.r.res.setCookie = hdr,
                       !.r.res.headersSent = TRUE,
                       !.r.res.body = IF res.ends = 0 THEN body ELSE @,
                       !.r.res.bodies = Append(@, body),
                       !.r.res.ends = @ + 1]
  IN  SessionUpdate(w1)

\* res.cookie(name, value, options)
ResCookie(w, name, value) ==
  [w EXCEPT !.r.res.cookies = Append(@, [name |-> name, value |-> value])]


\* ------------------------------------------------------------------------
\* SessionParser
\* ------------------------------------------------------------------------

CHARS == <<"0", "1", "2", "3", "4", "5", "6", "7", "8", "9", "a", "b", "c",
           "d", "e", "f", "g", "h", "i", "j", "k", "l", "m", "n", "o", "p",
           "q", "r", "s", "t", "u", "v", "w", "x", "y", "z">>

\* Number.prototype.toString(CHARS.length)
RECURSIVE Base36(_)
Base36(t) ==
  IF t < Len(CHARS) THEN <<CHARS[t + 1]>>
  ELSE Base36(t \div Len(CHARS)) \o <<CHARS[(t % Len(CHARS)) + 1]>>

\* SessionParser.prototype.newID(): rnd are the characters Math.random draws
newID(rnd) ==
  LET sid == Base36(now) \o <<"-">> \o Settings.serverID
  IN  IF Len(sid) < Settings.sessionLength
      THEN sid \o SubSeq(rnd, 1, Settings.sessionLength - Len(sid))
      ELSE sid

\* Parser's handle(): the rule's handler is entered
Handle(w, p) ==
  LET s    == w.r.session
      seen == IF s.has /\ s.val # 0 THEN w.heap[s.val] ELSE EmptyObject
  IN  [EnterStage(w, p, "invoke", "invoked") EXCEPT !.r.passes[p].seen = seen]

\* SessionParser.prototype.create, then setSession of init
SetSession(w, p, ch) ==
  LET sid == newID(ch.rnd)
      w1  == [w EXCEPT !.r.session = [has |-> TRUE, sid |-> sid, val |-> w.n],
                       !.r.created = TRUE,
                       !.heap[w.n] = NewSessionObject(now)]
  IN  Handle(ResCookie(w1, sidKey, sid), p)

\* isValid of getSession
IsValid(session) ==
  session.last # 0 /\ now - session.last <= Settings.sessionTimeout

\* mutant of GetSession: a session that is not valid is left in the store
GetSessionKeepsStale(w, p, ch, obj) ==
  LET w1 == [w EXCEPT !.r.checkedAt = now, !.r.got = w.heap[obj]]
  IN  IF IsValid(w.heap[obj])
      THEN Handle([w1 EXCEPT !.r.session = [has |-> TRUE, sid |-> w.r.cookie, val |-> obj],
                             !.heap[obj].last = now], p)
      ELSE SetSession(w1, p, ch)

\* getSession of init: obj is the heap id of the session object the store
\* handed to the callback
GetSession(w, p, ch, obj) ==
  LET w1 == [w EXCEPT !.r.checkedAt = now, !.r.got = w.heap[obj]]
  IN  IF IsValid(w.heap[obj])
      THEN Handle([w1 EXCEPT !.r.session = [has |-> TRUE, sid |-> w.r.cookie, val |-> obj],
                             !.heap[obj].last = now], p)
      ELSE SetSession(StoreDel(w1, w.r.cookie), p, ch)

\* MemoryStore.get: the session of the list, a new empty one when it has none
MemoryStoreGet(w, p, ch) ==
  LET sid == w.r.cookie
  IN  IF sid \in DOMAIN w.list /\ w.list[sid] # 0
      THEN GetSession(w, p, ch, w.list[sid])
      ELSE GetSession([w EXCEPT !.list = [s \in DOMAIN w.list \cup {sid} |->
                                            IF s = sid THEN w.n ELSE w.list[s]],
                                !.heap[w.n] = EmptyObject], p, ch, w.n)

\* SessionStore.get(sidVal, getSession): the memory store answers at once,
\* the file store after its fs.readFile, a store of the application when it
\* calls back
StoreGet(w, p, ch) ==
  LET w1 == Called([w EXCEPT !.r.gets = @ + 1], "get")
  IN  CASE SessionStore = "MemoryStore" -> MemoryStoreGet(w1, p, ch)
        [] SessionStore = "FileStore"   -> [w1 EXCEPT !.r.passes[p].at = "store"]
        [] OTHER                         -> [w1 EXCEPT !.r.passes[p].at = "custom"]

\* mutant of SessionInit: the length of the cookie's value is not looked at
SessionInitAnyLength(w, p, ch) ==
  LET sidVal == w.r.cookie
  IN  IF sidVal = NoCookie
      THEN SetSession(w, p, ch)
      ELSE StoreGet(w, p, ch)

\* SessionParser.prototype.init
SessionInit(w, p, ch) ==
  LET sidVal == w.r.cookie
  IN  IF sidVal = NoCookie \/ Len(sidVal) # Settings.sessionLength
      THEN SetSession(w, p, ch)
      ELSE StoreGet(w, p, ch)

\* ------------------------------------------------------------------------
\* Parser: the parsing pipeline of one matched rule
\* ------------------------------------------------------------------------

\* parseSession
ParseSession(w, p, ch) ==
  IF w.r.passes[p].mapper.session /\ ~w.r.session.has
  THEN SessionInit([EnterStage(w, p, "session", "session") EXCEPT
                      !.r.session = [has |-> TRUE, sid |-> <<>>, val |-> 0]], p, ch)
  ELSE Handle(w, p)

\* mutant of ParseBody: a rule with no body to parse goes straight to its
\* handler
ParseBodyThenHandle(w, p, ch) ==
  IF w.r.passes[p].mapper.post # "none" /\ w.r.body = "undefined"
  THEN [EnterStage(w, p, "body", "body") EXCEPT !.r.bodyReads = @ + 1]
  ELSE Handle(w, p)

\* parseBody, up to the call of BodyParser
ParseBody(w, p, ch) ==
  IF w.r.passes[p].mapper.post # "none" /\ w.r.body = "undefined"
  THEN [EnterStage(w, p, "body", "body") EXCEPT !.r.bodyReads = @ + 1]
  ELSE ParseSession(w, p, ch)

\* mutant of ParseFile: the rejection does not return
ParseFileGoesOn(w, p, ch) ==
  LET mapper == w.r.passes[p].mapper
      w1     == IF mapper.before /\ ~ch.before
                THEN ResEnd([w EXCEPT !.r.passes[p].at = "rejected"], RejectionBody)
                ELSE w
  IN  IF mapper.file /\ w1.r.body = "undefined"
      THEN [EnterStage(w1, p, "file", "form") EXCEPT !.r.bodyReads = @ + 1]
      ELSE ParseBody(w1, p, ch)

\* parseFile, up to the call of form.parse
ParseFile(w, p, ch) ==
  LET mapper == w.r.passes[p].mapper
  IN  IF mapper.before /\ ~ch.before
      THEN ResEnd([w EXCEPT !.r.passes[p].at = "rejected"], RejectionBody)
      ELSE IF mapper.file /\ w.r.body = "undefined"
      THEN [EnterStage(w, p, "file", "form") EXCEPT !.r.bodyReads = @ + 1]
      ELSE ParseBody(w, p, ch)

\* parseCookies
ParseCookies(w, p, ch) ==
  ParseFile([EnterStage(w, p, "cookie", "cookie") EXCEPT !.r.cookies = TRUE], p, ch)

\* the next() calls the handlers of a request have made
RECURSIVE SumNexts(_)
SumNexts(passes) ==
  IF passes = <<>> THEN 0 ELSE Head(passes).nexts + SumNexts(Tail(passes))

NextCalls(r) == SumNexts(r.passes)

\* Parser(req, res, mapper)
Parser(w, reg, i, mapper, ch) ==
  LET w1 == [w EXCEPT !.r.passes = Append(@, NewPass(reg, i, mapper, NextCalls(w.r)))]
  IN  ParseCookies(w1, Len(w1.r.passes), ch)

\* ------------------------------------------------------------------------
\* Template
\* ------------------------------------------------------------------------

\* the template files the model follows
TemplateFiles == {"a", "b"}

\* Settings["404"] when no template is configured
NoTemplate == ""

\* a template's text is a sequence of characters and include markers; "#a"
\* stands for <!--#include="a"-->. The file a match of includeRegExp names, or
\* NoTemplate for text that is no marker
IncludeFile(fileStr) ==
  CASE fileStr = "#a" -> "a"
    [] fileStr = "#b" -> "b"
    [] OTHER -> NoTemplate

\* templatePool[filename] is truthy
Pooled(pool, filename) == filename \in DOMAIN pool /\ pool[filename] # <<>>

\* a call of Template.render: the template, the request whose res.end gets the
\* output (0: an outFn of the caller), the output once made, the fs.readFile
\* calls made for it, and whether it began after a render of the same template
\* had completed with caching enabled and no clear() since
NewRender(t, tmplUrl, n) ==
  [name  |-> tmplUrl,
   res   |-> n,
   done  |-> FALSE,
   out   |-> <<>>,
   reads |-> 0,
   stale |-> FALSE,
   again |-> /\ Settings.templateCache
             /\ \E j \in DOMAIN t.renders :
                  /\ t.renders[j].name = tmplUrl
                  /\ t.renders[j].done
                  /\ ~t.renders[j].stale]

\* the else branch of getFile: fs.readFile is called; cb tells whether getFile
\* was given a callback
ReadTemplate(t, filename, r, cb) ==
  [t EXCEPT !.reads = Append(@, [file |-> filename, render |-> r, cb |-> cb]),
            !.renders[r].reads = @ + 1]

\* getFile(includeFile): no callback, so a cached file gives nothing to do
GetInclude(t, filename, r) ==
  IF Settings.templateCache /\ Pooled(t.pool, filename)
  THEN t
  ELSE ReadTemplate(t, filename, r, FALSE)

\* the getFile calls of tmpl.replace(includeRegExp, ...), one per marker
RECURSIVE GetIncludes(_, _, _)
GetIncludes(t, tmpl, r) ==
  IF tmpl = <<>>
  THEN t
  ELSE LET includeFile == IncludeFile(Head(tmpl))
       IN  GetIncludes(IF includeFile = NoTemplate THEN t ELSE GetInclude(t, includeFile, r),
                       Tail(tmpl), r)

\* what tmpl.replace(includeRegExp, ...) returns: every marker gives way to
\* templatePool[includeFile] || ''
RECURSIVE ReplaceIncludes(_, _)
ReplaceIncludes(pool, tmpl) ==
  IF tmpl = <<>>
  THEN <<>>
  ELSE LET includeFile == IncludeFile(Head(tmpl))
           piece == IF includeFile = NoTemplate THEN <<Head(tmpl)>>
                    ELSE IF Pooled(pool, includeFile) THEN pool[includeFile]
                    ELSE <<>>
       IN  piece \o ReplaceIncludes(pool, Tail(tmpl))

\* the template engine applied to the model: text without directives of the
\* engine's language is its own rendering
engineFunc(chrunk) == chrunk

\* the callback getTemplate hands to getFile, then render(tmpl, model, end)
GotTemplate(t, tmpl, r) ==
  [GetIncludes(t, tmpl, r) EXCEPT !.renders[r].done = TRUE,
                                  !.renders[r].out = engineFunc(ReplaceIncludes(t.pool, tmpl))]

\* getFile(filename, cb) as getTemplate calls it
getFile(t, filename, r) ==
  IF Settings.templateCache /\ Pooled(t.pool, filename)
  THEN GotTemplate(t, t.pool[filename], r)
  ELSE ReadTemplate(t, filename, r, TRUE)

\* Template.render(tmplUrl, model, outFn), up to the first fs.readFile callback
TemplateRender(t, tmplUrl, n) ==
  LET r == Len(t.renders) + 1
  IN  getFile([t EXCEPT !.renders = Append(@, NewRender(t, tmplUrl, n))], tmplUrl, r)

\* the callback of the fs.readFile call reads[i] of getFile
TemplateRead(t, i) ==
  LET rd   == t.reads[i]
      file == t.disk[rd.file]
      t1   == [t EXCEPT !.reads = SubSeq(@, 1, i - 1) \o SubSeq(@, i + 1, Len(@))]
      t2   == [t1 EXCEPT !.pool = [f \in DOMAIN t.pool \cup {rd.file} |->
                                     IF f = rd.file THEN file.text ELSE t.pool[f]]]
  IN  IF ~file.exists
      THEN IF rd.cb THEN GotTemplate(t1, <<>>, rd.render) ELSE t1
      ELSE IF rd.cb THEN GotTemplate(t2, file.text, rd.render) ELSE t2

\* Template.clear
TemplateClear(t) ==
  [t EXCEPT !.pool = <<>>,
            !.renders = [j \in DOMAIN t.renders |-> [t.renders[j] EXCEPT !.stale = TRUE]]]

\* ------------------------------------------------------------------------
\* Handler dispatch, static files and the filter chain
\* ------------------------------------------------------------------------

\* the URL fileHandler works on: the query string is cut off when the "?" is
\* not the first character
StaticUrl(url) ==
  LET hasQuery == IndexOf(url, <<"?">>)
  IN  IF hasQuery > 0 THEN Substr(url, 0, hasQuery) ELSE url

\* fileHandler, up to its fs.stat call
fileHandler(w) == [w EXCEPT !.r.stats = @ + 1, !.r.statics = @ + 1]

\* writeFile, up to its fs.readFile call (res.sendFile is writeFile on a home path)
writeFile(w) == [w EXCEPT !.r.reads = @ + 1, !.r.fileReads = @ + 1]

\* the bodies of write403 and of ListDir.list
ForbiddenBody == <<"Access forbidden!">>
ListingBody == <<"listing">>

\* self.write403
write403(w) == ResEnd(WriteHead(w, 403), ForbiddenBody)

\* res.redirect(url): statusCode is assigned, then res.end()
redirect(w) == ResEnd([w EXCEPT !.r.res.statusCode = 302], NoBody)

\* handleDir of fileHandler: ListDir.list up to its fs.readdir call, or write403
handleDir(w) ==
  IF Settings.listDir
  THEN [WriteHead(w, 200) EXCEPT !.r.lists = @ + 1]
  ELSE write403(w)

\* handleDefault of fileHandler, up to its fs.exists call
handleDefault(w) ==
  IF Settings.defaultPage # ""
  THEN [w EXCEPT !.r.exists = @ + 1]
  ELSE handleDir(w)

\* new Date(req.headers["if-modified-since"] || 1)
cacheTime(since) == IF since = NoHeader THEN 1 ELSE since

\* Settings.cache && stat.mtime <= cacheTime
NotModified(mtime, since) == Settings.cache /\ mtime <= cacheTime(since)

\* the file branch of handlePath
handleFile(w, stat) ==
  IF NotModified(stat.mtime, w.r.since)
  THEN ResEnd(WriteHead(w, 304), NoBody)
  ELSE writeFile(SetLastModified(w))

\* mutant of write404: the literal text is sent whatever Settings["404"] holds
write404Plain(w, t) ==
  [w |-> ResEnd(WriteHead(w, 404), NotFoundBody), t |-> t]

\* self.write404: the world and the Template state it leaves; the output of
\* a render that completes at once is ended with at once
write404(w, t) ==
  LET w1 == WriteHead(w, 404)
      t1 == TemplateRender(t, Settings.page404, w.n)
      r  == Len(t1.renders)
  IN  IF Settings.page404 = NoTemplate
      THEN [w |-> ResEnd(w1, NotFoundBody), t |-> t]
      ELSE [w |-> IF t1.renders[r].done THEN ResEnd(w1, t1.renders[r].out) ELSE w1,
            t |-> t1]

\* what Handler.handle does with the matched rule at position i
ActOn(w, i, ch) ==
  LET mapper == handlers[i]
  IN  CASE mapper.handler = "Function" -> Parser(w, "handler", i, mapper, ch)
        [] mapper.handler = "String"   -> ResEnd(WriteHead(w, 200), StringBody)
        [] mapper.handler = "Array"    -> writeFile(w)
        [] OTHER                       -> w

\* mutant of HandleLoop: the loop goes on after a match, so the last rule that
\* matches is the one acted on
RECURSIVE HandleLoopLast(_, _)
HandleLoopLast(reqUrl, i) ==
  IF i > Len(handlers) THEN 0
  ELSE LET later == HandleLoopLast(reqUrl, i + 1)
       IN  IF later # 0 THEN later
           ELSE IF match(handlers[i], reqUrl, TRUE) THEN i ELSE 0

\* the loop of Handler.handle from position i: the first rule that matches is
\* acted on and the loop returns; 0 when it ran off the end
RECURSIVE HandleLoop(_, _)
HandleLoop(reqUrl, i) ==
  IF i > Len(handlers) THEN 0
  ELSE IF match(handlers[i], reqUrl, TRUE) THEN i
  ELSE HandleLoop(reqUrl, i + 1)

\* the chain's callback: !Handler.handle(req, res) && fileHandler(req, res)
ChainCallback(w, ch) ==
  LET i  == HandleLoop(w.r.url, 1)
      w1 == [w EXCEPT !.r.dispatched = Append(@, i)]
  IN  IF i = 0 THEN fileHandler(w1) ELSE ActOn(w1, i, ch)

\* mutant of FilterChainNext: the chain goes on by itself after a matched rule
RECURSIVE FilterChainNextAuto(_, _)
FilterChainNextAuto(w, ch) ==
  LET i  == w.r.idx + 1
      w1 == [w EXCEPT !.r.idx = @ + 1]
  IN  IF i > Len(filters) THEN ChainCallback(w1, ch)
      ELSE LET w2 == [w1 EXCEPT !.r.visited = Append(@, i)]
           IN  IF match(filters[i], w.r.url, FALSE)
               THEN FilterChainNextAuto(Parser(w2, "filter", i, filters[i], ch), ch)
               ELSE FilterChainNextAuto(w2, ch)

\* mutant of FilterChainNext: a rule that does not match ends the walk
FilterChainNextStops(w, ch) ==
  LET i  == w.r.idx + 1
      w1 == [w EXCEPT !.r.idx = @ + 1]
  IN  IF i > Len(filters) THEN ChainCallback(w1, ch)
      ELSE LET w2 == [w1 EXCEPT !.r.visited = Append(@, i)]
           IN  IF match(filters[i], w.r.url, FALSE)
               THEN Parser(w2, "filter", i, filters[i], ch)
               ELSE w2

\* FilterChain.prototype.next
RECURSIVE FilterChainNext(_, _)
FilterChainNext(w, ch) ==
  LET i  == w.r.idx + 1
      w1 == [w EXCEPT !.r.idx = @ + 1]
  IN  IF i > Len(filters) THEN ChainCallback(w1, ch)
      ELSE LET w2 == [w1 EXCEPT !.r.visited = Append(@, i)]
           IN  IF match(filters[i], w.r.url, FALSE)
               THEN Parser(w2, "filter", i, filters[i], ch)
               ELSE FilterChainNext(w2, ch)

\* requestHandler
requestHandler(w, url, cookie, since, ch) ==
  FilterChainNext([w EXCEPT !.r = NewRequest(url, cookie, since)], ch)

\* ------------------------------------------------------------------------
\* Actions
\* ------------------------------------------------------------------------

\* the characters Math.random is taken to draw
RandomChars == {"a", "b"}

\* what one synchronous run draws from outside: the result of the rule's
\* "before" predicate and the random characters of newID
PadLength ==
  LET used == Len(Base36(now)) + 1 + Len(Settings.serverID)
  IN  IF used < Settings.sessionLength THEN Settings.sessionLength - used ELSE 0

Choices == [before : BOOLEAN, rnd : [1..PadLength -> RandomChars]]

\* the variables take the values one synchronous run left in its world
Commit(w) ==
  /\ reqs' = [reqs EXCEPT ![w.n] = w.r]
  /\ list' = w.list
  /\ fsOps' = w.fsOps
  /\ heap' = w.heap

\* a request arrives: http.createServer(requestHandler)
ArriveWith(n, url, cookie, since) ==
  /\ ~reqs[n].open
  /\ \E ch \in Choices : Commit(requestHandler(World(n), url, cookie, since, ch))
  /\ UNCHANGED <<Settings, SessionStore, filters, handlers, files, now, registered>>
  /\ UNCHANGED matchVars
  /\ UNCHANGED sideVars

\* a request without an If-Modified-Since header arrives
Arrive(n, url, cookie) == ArriveWith(n, url, cookie, NoHeader)


\* the callback of form.parse for pass p: an error is logged and nothing more
\* happens; otherwise the fields become the body and parseBody runs
FormParsed(n, p, err) ==
  /\ reqs[n].open
  /\ p \in DOMAIN reqs[n].passes
  /\ reqs[n].passes[p].at = "form"
  /\ IF err
     THEN Commit([World(n) EXCEPT !.r.passes[p].at = "aborted"])
     ELSE \E ch \in Choices :
            Commit(ParseBody([World(n) EXCEPT !.r.body = "fields"], p, ch))
  /\ UNCHANGED <<Settings, SessionStore, filters, handlers, files, now, registered>>
  /\ UNCHANGED matchVars
  /\ UNCHANGED sideVars

\* what parseBody makes of the received text, by the rule's post mode; a text
\* that does not parse gives {}
ParsedBody(post, good) ==
  CASE post = "json" -> IF good THEN "json" ELSE "{}"
    [] post = "qs"   -> "qs"
    [] OTHER         -> "text"

\* the callback of BodyParser for pass p, then parseSession
BodyEnd(n, p, good) ==
  /\ reqs[n].open
  /\ p \in DOMAIN reqs[n].passes
  /\ reqs[n].passes[p].at = "body"
  /\ \E ch \in Choices :
       Commit(ParseSession([World(n) EXCEPT
                 !.r.body = ParsedBody(reqs[n].passes[p].mapper.post, good)], p, ch))
  /\ UNCHANGED <<Settings, SessionStore, filters, handlers, files, now, registered>>
  /\ UNCHANGED matchVars
  /\ UNCHANGED sideVars

\* the callback of FileStore.get's fs.readFile for pass p: the file's JSON is
\* parsed into a new object, {} when there is no file; then getSession
StoreRead(n, p) ==
  /\ reqs[n].open
  /\ p \in DOMAIN reqs[n].passes
  /\ reqs[n].passes[p].at = "store"
  /\ LET sid     == reqs[n].cookie
         session == IF sid \in DOMAIN files THEN files[sid] ELSE EmptyObject
     IN  \E ch \in Choices :
           Commit(GetSession([World(n) EXCEPT !.heap[n] = session], p, ch, n))
  /\ UNCHANGED <<Settings, SessionStore, filters, handlers, files, now, registered>>
  /\ UNCHANGED matchVars
  /\ UNCHANGED sideVars

\* an fs.writeFile of FileStore.set completes
FsWriteDone(o) ==
  /\ o \in fsOps
  /\ o.op = "writeFile"
  /\ files' = [s \in DOMAIN files \cup {o.sid} |->
                 IF s = o.sid THEN o.content ELSE files[s]]
  /\ fsOps' = fsOps \ {o}
  /\ UNCHANGED <<Settings, SessionStore, filters, handlers, list, heap, now, reqs, registered>>
  /\ UNCHANGED matchVars
  /\ UNCHANGED sideVars

\* an fs.unlink of FileStore.del completes
\* the callback of FileStore.set's fs.writeFile is called with an error: it
\* calls Logger.error, which Logger does not have
LoggerErrorMissing == "TypeError: Logger.error is not a function"

FsWriteFailed(o) ==
  /\ o \in fsOps
  /\ o.op = "writeFile"
  /\ fsOps' = fsOps \ {o}
  /\ uncaught' = Append(uncaught, LoggerErrorMissing)
  /\ UNCHANGED <<Settings, SessionStore, filters, handlers, list, files, heap, now, reqs, registered>>
  /\ UNCHANGED matchVars
  /\ UNCHANGED <<sweep, tpl, assigned>>

\* the callback of FileStore.del's fs.unlink is called with an error: it is
\* handed to Logger.debug
FsUnlinkFailed(o) ==
  /\ o \in fsOps
  /\ o.op = "unlink"
  /\ fsOps' = fsOps \ {o}
  /\ UNCHANGED <<Settings, SessionStore, filters, handlers, list, files, heap, now, reqs, registered>>
  /\ UNCHANGED matchVars
  /\ UNCHANGED sideVars

\* the callback of FileStore.get's fs.readFile is called with an error, whether
\* the file exists or not: getSession is handed the empty session
StoreReadFailed(n, p) ==
  /\ reqs[n].open
  /\ p \in DOMAIN reqs[n].passes
  /\ reqs[n].passes[p].at = "store"
  /\ \E ch \in Choices :
       Commit(GetSession([World(n) EXCEPT !.heap[n] = EmptyObject,
                                          !.r.readErrs = @ + 1], p, ch, n))
  /\ UNCHANGED <<Settings, SessionStore, filters, handlers, files, now, registered>>
  /\ UNCHANGED matchVars
  /\ UNCHANGED sideVars

FsUnlinkDone(o) ==
  /\ o \in fsOps
  /\ o.op = "unlink"
  /\ files' = [s \in DOMAIN files \ {o.sid} |-> files[s]]
  /\ fsOps' = fsOps \ {o}
  /\ UNCHANGED <<Settings, SessionStore, filters, handlers, list, heap, now, reqs, registered>>
  /\ UNCHANGED matchVars
  /\ UNCHANGED sideVars

\* handler code calls of one request the model follows
MaxCalls == 3

\* the handler of a filter, entered by pass p, calls req.filter.next()
UserNext(n, p) ==
  /\ reqs[n].open
  /\ p \in DOMAIN reqs[n].passes
  /\ reqs[n].passes[p].at = "invoked"
  /\ reqs[n].passes[p].reg = "filter"
  /\ reqs[n].calls < MaxCalls
  /\ \E ch \in Choices :
       Commit(FilterChainNext([World(n) EXCEPT !.r.passes[p].nexts = @ + 1,
                                               !.r.calls = @ + 1], ch))
  /\ UNCHANGED <<Settings, SessionStore, filters, handlers, files, now, registered>>
  /\ UNCHANGED matchVars
  /\ UNCHANGED sideVars

\* the handler entered by pass p calls res.end() (res.send and res.redirect
\* end in it)
UserEnd(n, p) ==
  /\ reqs[n].open
  /\ p \in DOMAIN reqs[n].passes
  /\ reqs[n].passes[p].at = "invoked"
  /\ reqs[n].calls < MaxCalls
  /\ Commit(ResEnd([World(n) EXCEPT !.r.calls = @ + 1], UserBody))
  /\ UNCHANGED <<Settings, SessionStore, filters, handlers, files, now, registered>>
  /\ UNCHANGED matchVars
  /\ UNCHANGED sideVars

\* SessionParser.prototype.set
SessionSet(w, key, val) ==
  [w EXCEPT !.heap[w.r.session.val].last = now,
            !.heap[w.r.session.val].data[key] = val,
            !.r.sets = @ \cup {key}]

\* the handler entered by pass p calls req.session.set(key, val)
\* the TypeError of reading err.stack of null
NullStackError == "TypeError: Cannot read property 'stack' of null"

\* the values a handler may throw: an Error object, a string, null (or
\* undefined)
ThrownValues == {"Error", "string", "null"}

\* the passes whose handler has thrown
Thrown(r) == {r.throws[k].pass : k \in DOMAIN r.throws}

\* the catch block of Parser's handle() for pass p, for a thrown value whose
\* stack can be read: the message is logged and the response is ended
HandleCatch(w, p, value) ==
  LET w1 == [w EXCEPT !.r.throws = Append(@, [pass |-> p, value |-> value, escaped |-> FALSE])]
  IN  ResEnd(w1, IF Settings.showError THEN ErrorBody ELSE NoBody)

\* the filter passes whose handler may be running p's Parser from inside its
\* own try block, through a next() call
Enclosing(r, p) ==
  {q \in DOMAIN r.passes :
     /\ q < p
     /\ r.passes[q].reg = "filter"
     /\ r.passes[q].at = "invoked"
     /\ r.passes[q].nexts > 0
     /\ q \notin Thrown(r)}

\* the handler of pass p throws value during mapper.handler(req, res). The
\* catch block reads err.stack first: for null that is a TypeError thrown from
\* inside the catch block, which leaves handle(); it is caught by the catch
\* block of a filter whose next() call this handler is running under
\* (catcher), and leaves the pipeline when there is none (catcher = 0)
UserThrow(n, p, value, catcher) ==
  /\ reqs[n].open
  /\ p \in DOMAIN reqs[n].passes
  /\ reqs[n].passes[p].at = "invoked"
  /\ p \notin Thrown(reqs[n])
  /\ IF value # "null"
     THEN /\ catcher = 0
          /\ Commit(HandleCatch(World(n), p, value))
     ELSE IF catcher = 0
     THEN Commit([World(n) EXCEPT !.r.throws =
                    Append(@, [pass |-> p, value |-> value, escaped |-> TRUE])])
     ELSE /\ catcher \in Enclosing(reqs[n], p)
          /\ Commit(HandleCatch(
               [World(n) EXCEPT !.r.throws =
                  Append(@, [pass |-> p, value |-> value, escaped |-> FALSE])],
               catcher, "Error"))
  /\ uncaught' = IF value = "null" /\ catcher = 0
                 THEN Append(uncaught, NullStackError)
                 ELSE uncaught
  /\ UNCHANGED <<Settings, SessionStore, filters, handlers, files, now, registered>>
  /\ UNCHANGED matchVars
  /\ UNCHANGED <<sweep, tpl, assigned>>

UserSet(n, p, key, val) ==
  /\ reqs[n].open
  /\ p \in DOMAIN reqs[n].passes
  /\ reqs[n].passes[p].at = "invoked"
  /\ reqs[n].session.has
  /\ reqs[n].session.val # 0
  /\ Commit(SessionSet(World(n), key, val))
  /\ UNCHANGED <<Settings, SessionStore, filters, handlers, files, now, registered>>
  /\ UNCHANGED matchVars
  /\ UNCHANGED sideVars

\* the callback of handlePath's fs.stat: an error gives the 404 page, a file
\* is answered by handleFile, a directory goes to handleDefault, anything
\* else gives the 404 page
StatDone(n, stat) ==
  /\ reqs[n].open
  /\ reqs[n].stats > 0
  /\ LET w == [World(n) EXCEPT !.r.stats = @ - 1, !.r.stat = stat]
         o == CASE stat.kind = "file"      -> [w |-> handleFile(w, stat), t |-> tpl]
                [] stat.kind = "directory" -> [w |-> handleDefault(w), t |-> tpl]
                [] OTHER                   -> write404(w, tpl)
     IN  Commit(o.w) /\ tpl' = o.t
  /\ UNCHANGED <<Settings, SessionStore, filters, handlers, files, now, registered>>
  /\ UNCHANGED matchVars
  /\ UNCHANGED <<sweep, assigned, uncaught>>

\* the callback of writeFile's fs.readFile: the content is sent with status
\* 200; an error is logged and nothing is sent
ReadDone(n, err) ==
  /\ reqs[n].open
  /\ reqs[n].reads > 0
  /\ LET w == [World(n) EXCEPT !.r.reads = @ - 1]
     IN  Commit(IF err THEN w ELSE ResEnd(WriteHead(w, 200), FileBody))
  /\ UNCHANGED <<Settings, SessionStore, filters, handlers, files, now, registered>>
  /\ UNCHANGED matchVars
  /\ UNCHANGED sideVars

\* the callback of handleDefault's fs.exists: a default page is handled as a
\* path again, after a redirect when the URL lacks the final slash; without
\* one the directory goes to handleDir
ExistsDone(n, exists) ==
  /\ reqs[n].open
  /\ reqs[n].exists > 0
  /\ LET w   == [World(n) EXCEPT !.r.exists = @ - 1]
         url == StaticUrl(reqs[n].url)
     IN  Commit(IF ~exists THEN handleDir(w)
                ELSE IF CharAt(url, Len(url) - 1) # "/" THEN redirect(w)
                ELSE [w EXCEPT !.r.stats = @ + 1])
  /\ UNCHANGED <<Settings, SessionStore, filters, handlers, files, now, registered>>
  /\ UNCHANGED matchVars
  /\ UNCHANGED sideVars

\* the listing of ListDir.list is complete: listEnd
ListDone(n) ==
  /\ reqs[n].open
  /\ reqs[n].lists > 0
  /\ Commit(ResEnd([World(n) EXCEPT !.r.lists = @ - 1], ListingBody))
  /\ UNCHANGED <<Settings, SessionStore, filters, handlers, files, now, registered>>
  /\ UNCHANGED matchVars
  /\ UNCHANGED sideVars

\* the last instant of the clock the model follows
MaxTime == 3

\* time passes
Tick ==
  /\ now < MaxTime
  /\ now' = now + 1
  /\ UNCHANGED <<Settings, SessionStore, filters, handlers, list, files, fsOps, heap, reqs, registered>>
  /\ UNCHANGED matchVars
  /\ UNCHANGED sideVars


\* ------------------------------------------------------------------------
\* Registration (setup time: before the first request is received)
\* ------------------------------------------------------------------------

\* the filter registrations an application makes, each at most once
FilterCalls ==
  { [api |-> "session", expression |-> StrExpression(<<"/", "a">>), options |-> PostOptions("qs")],
    [api |-> "file",    expression |-> StrExpression(<<"/", "a">>), options |-> SessionOptions],
    [api |-> "filter",  expression |-> NoExpression,                options |-> NoOptions],
    [api |-> "filter",  expression |-> StrExpression(<<"/", "b">>), options |-> FileOptions] }

\* the handler registrations an application makes, each at most once
HandlerCalls ==
  { [expression |-> StrExpression(<<"/", "a">>), handler |-> "Function", options |-> SessionOptions],
    [expression |-> StrExpression(<<"/", "b">>), handler |-> "String",   options |-> NoOptions],
    [expression |-> StrExpression(<<"/", "b">>), handler |-> "Array",    options |-> NoOptions] }

\* the request URLs of the pipeline specification
RequestUrls == { <<"/", "a">>, <<"/", "b">> }

NoneOpen == \A n \in DOMAIN reqs : ~reqs[n].open

\* the filter list after the registration call c
FilterRegister(fs, c) ==
  CASE c.api = "filter"  -> FilterFilter(fs, c.expression, c.options)
    [] c.api = "session" -> FilterSession(fs, c.expression, c.options)
    [] c.api = "file"    -> FilterFile(fs, c.expression, c.options)

\* self.filter / self.use, self.session or self.file is called
Register(c) ==
  /\ NoneOpen
  /\ c \notin Range(registered)
  /\ registered' = Append(registered, c)
  /\ filters' = FilterRegister(filters, c)
  /\ UNCHANGED <<Settings, SessionStore, handlers, list, files, fsOps, heap, now, reqs>>
  /\ UNCHANGED matchVars
  /\ UNCHANGED sideVars

\* self.url / self.get / self.handle is called
RegisterUrl(c) ==
  /\ NoneOpen
  /\ Mapper(c.expression, c.handler, c.options) \notin Range(handlers)
  /\ handlers' = HandlerUrl(handlers, c.expression, c.handler, c.options)
  /\ UNCHANGED <<Settings, SessionStore, filters, list, files, fsOps, heap, now, reqs, registered>>
  /\ UNCHANGED matchVars
  /\ UNCHANGED sideVars

\* ------------------------------------------------------------------------
\* The chain specification: registrations, then one request
\* ------------------------------------------------------------------------

NotCalled == [op |-> "none", res |-> NoMatch]

MatcherIdle ==
  /\ mExpr = <<>>
  /\ mUrl = <<>>
  /\ mStrict = FALSE
  /\ mRes = NotCalled

\* clearHandler has not run
NeverSwept == [at |-> 0, gone |-> {}]

\* a file of the template directory
NoFile == [exists |-> FALSE, text |-> <<>>]

\* Template before its first render, over the template files disk
NewTemplate(disk) == [disk |-> disk, pool |-> <<>>, reads |-> <<>>, renders |-> <<>>]

\* self.sessionStore has not been assigned to
NeverAssigned == [calls |-> 0, last |-> [name |-> "", get |-> FALSE, set |-> FALSE, del |-> FALSE],
                  accepted |-> FALSE, rejected |-> FALSE]

SideIdle ==
  /\ uncaught = <<>>
  /\ sweep = NeverSwept
  /\ assigned = NeverAssigned
  /\ tpl = NewTemplate([f \in TemplateFiles |-> NoFile])

\* Settings with a three-character session id, a timeout of one tick and no
\* session directory
MemorySettings ==
  [sessionLength |-> 3, sessionTimeout |-> 1, sessionDir |-> <<>>, serverID |-> <<>>,
   cache |-> TRUE, templateCache |-> TRUE, page404 |-> NoTemplate,
   listDir |-> FALSE, defaultPage |-> "index.html", showError |-> TRUE]

\* self.init: the store in use follows Settings.sessionDir
InitStore(settings) ==
  IF settings.sessionDir # <<>> THEN "FileStore" ELSE "MemoryStore"

ServerInit(settings) ==
  /\ Settings = settings
  /\ SessionStore = InitStore(settings)
  /\ filters = <<>>
  /\ handlers = <<>>
  /\ registered = <<>>
  /\ list = <<>>
  /\ files = <<>>
  /\ fsOps = {}
  /\ heap = [i \in 1..MaxRequests |-> EmptyObject]
  /\ now = 1
  /\ reqs = [i \in 1..MaxRequests |-> NoRequest]

Init ==
  /\ ServerInit(MemorySettings)
  /\ MatcherIdle
  /\ SideIdle

Passes(n) == DOMAIN reqs[n].passes

Next ==
  \/ \E c \in FilterCalls : Register(c)
  \/ \E c \in HandlerCalls : RegisterUrl(c)
  \/ \E url \in RequestUrls : Arrive(1, url, NoCookie)
  \/ \E p \in Passes(1), err \in BOOLEAN : FormParsed(1, p, err)
  \/ \E p \in Passes(1), good \in BOOLEAN : BodyEnd(1, p, good)
  \/ \E p \in Passes(1) : UserNext(1, p)
  \/ \E p \in Passes(1) : UserEnd(1, p)
  \/ \E stat \in {NoSuchPath, FileAt(MaxTime)} : StatDone(1, stat)
  \/ \E err \in BOOLEAN : ReadDone(1, err)

Spec == Init /\ [][Next]_vars


\* ------------------------------------------------------------------------
\* The matcher specification: Mapper's matching on every expression and URL
\* ------------------------------------------------------------------------

\* the characters request URLs are made of
UrlChars == {"/", "?", "m", "x", "%", "2"}

\* request URLs: a "/" and up to MaxUrlLen - 1 more characters
MatchUrls ==
  { <<"/">> \o s : s \in UNION { [1..k -> UrlChars] : k \in 0..(MaxUrlLen - 1) } }

\* the expressions rules are registered with
MatchExprs ==
  { <<"/", "m">>, <<"m">>, <<"/">>, <<"x">>, <<"m", "/", "x">>,
    <<"/", ":", "a">>, <<"/", "m", "/", ":", "a">>, <<"m", "/", ":", "a">>,
    <<"/", ":", "a", "/", "m">>, <<"/", ":", "a", "/", ":", "b">>,
    <<"/", ":", "a", "/">>, <<"/", ":", "a", "/", ":", "a">> }

MatchInit ==
  /\ ServerInit(MemorySettings)
  /\ mExpr \in MatchExprs
  /\ mUrl \in MatchUrls
  /\ mStrict \in BOOLEAN
  /\ mRes = NotCalled
  /\ SideIdle

\* mapper.matchString(req, isHandler, expression) is called
CallMatchString ==
  /\ mRes.op = "none"
  /\ mRes' = [op |-> "matchString", res |-> matchString(mUrl, mStrict, mExpr)]
  /\ UNCHANGED <<mExpr, mUrl, mStrict>>
  /\ UNCHANGED serverVars

\* self.parseUrl(expression, reqUrl) is called
CallParseUrl ==
  /\ mRes.op = "none"
  /\ mRes' = [op |-> "parseUrl", res |-> parseUrl(mExpr, mUrl)]
  /\ UNCHANGED <<mExpr, mUrl, mStrict>>
  /\ UNCHANGED serverVars

MatchNext == CallMatchString \/ CallParseUrl

SpecMatch == MatchInit /\ [][MatchNext]_vars

\* ------------------------------------------------------------------------
\* The list specification: one rule with an Array expression, one call of
\* match
\* ------------------------------------------------------------------------

\* the longest Array expression
MaxList == 2

\* the strings the Array expressions are made of
ListExprs ==
  { <<"/", "m">>, <<"x">>, <<"/", ":", "a">>, <<"/", ":", "b">>,
    <<"/", "m", "/", ":", "a">> }

\* the request URLs the Array expressions are matched against
ListUrls ==
  { <<"/">>, <<"/", "m">>, <<"/", "x">>, <<"/", "m", "x">>, <<"/", "m", "/">>,
    <<"/", "m", "/", "x">>, <<"/", "x", "/", "m">>, <<"/", "m", "?", "x">>,
    <<"/", "%", "2", "2">>, <<"/", "m", "/", "%">> }

\* req.params before the call: {} as requestHandler sets it, or what an
\* earlier rule of the request has merged into it
ParamsBefore == { <<>>, [n \in {<<"b">>} |-> <<"x">>] }

ListInit ==
  /\ ServerInit(MemorySettings)
  /\ mExpr \in UNION { [1..k -> ListExprs] : k \in 1..MaxList }
  /\ mUrl \in ListUrls
  /\ mStrict \in BOOLEAN
  /\ mRes \in { [op |-> "none", res |-> FALSE, before |-> p, params |-> p, calls |-> 0] :
                 p \in ParamsBefore }
  /\ SideIdle

\* mapper.match(req, isHandler) is called on a rule whose expression is the
\* Array mExpr
CallMatch ==
  /\ mRes.op = "none"
  /\ LET mapper == Mapper(ArrayExpression(mExpr), "Function", NoOptions)
         r == matchArray(mUrl, mStrict, mExpr, mRes.before)
     IN  mRes' = [op |-> "match", res |-> match(mapper, mUrl, mStrict),
                  before |-> mRes.before, params |-> r.params, calls |-> r.calls]
  /\ UNCHANGED <<mExpr, mUrl, mStrict>>
  /\ UNCHANGED serverVars

ListNext == CallMatch

SpecList == ListInit /\ [][ListNext]_vars


\* ------------------------------------------------------------------------
\* The session specification: one session-requiring handler rule, either
\* store, and requests that arrive one after the other's response
\* ------------------------------------------------------------------------

\* Settings with a session directory: the file store is in use
FileSettings == [MemorySettings EXCEPT !.sessionDir = <<"d">>]

SessionUrl == <<"/", "a">>

\* the server after self.url(SessionUrl, function, {session: true})
SessionSpecInit ==
  /\ \E settings \in {MemorySettings, FileSettings} :
       /\ Settings = settings
       /\ SessionStore = InitStore(settings)
  /\ filters = <<>>
  /\ handlers = HandlerUrl(<<>>, StrExpression(SessionUrl), "Function", SessionOptions)
  /\ registered = <<>>
  /\ list = <<>>
  /\ files = <<>>
  /\ fsOps = {}
  /\ heap = [i \in 1..MaxRequests |-> EmptyObject]
  /\ now = 1
  /\ reqs = [i \in 1..MaxRequests |-> NoRequest]
  /\ MatcherIdle
  /\ SideIdle

\* the id of a session an earlier run of the server gave out
OldSid == <<"0", "-", "z">>

\* the _wsid values of the Set-Cookie header request m was answered with
Issued(m) ==
  {reqs[m].res.setCookie[k].value : k \in DOMAIN reqs[m].res.setCookie}

\* the _wsid cookie request n may present: none, one of the wrong length, or
\* one an earlier response set
CookiesFor(n) ==
  {NoCookie, <<"x">>} \cup UNION {Issued(m) : m \in 1..(n - 1)}

\* the well-formed _wsid cookies request n may present: one of an earlier run
\* or one an earlier response set
WellFormedFor(n) ==
  {OldSid} \cup UNION {Issued(m) : m \in 1..(n - 1)}

\* the responses to all earlier requests are complete
Answered(n) == \A m \in 1..(n - 1) : reqs[m].open /\ reqs[m].res.ends > 0

\* no request is being processed: a tick of the clock is long against the
\* processing of one request
Quiet == \A n \in DOMAIN reqs : reqs[n].open => reqs[n].res.ends > 0

\* what follows the arrival of a request: the store's callbacks, the handler's
\* calls and the clock
SessionWork ==
  \/ \E n \in 1..MaxRequests : \E p \in Passes(n) : StoreRead(n, p)
  \/ \E o \in fsOps : FsWriteDone(o)
  \/ \E o \in fsOps : FsUnlinkDone(o)
  \/ \E n \in 1..MaxRequests : \E p \in Passes(n) : \E k \in {FirstKey}, v \in Vals :
       reqs[n].res.ends = 0 /\ UserSet(n, p, k, v)
  \/ \E n \in 1..MaxRequests : \E p \in Passes(n) :
       reqs[n].res.ends = 0 /\ UserEnd(n, p)
  \/ Quiet /\ Tick

SessionNext ==
  \/ \E n \in 1..MaxRequests : \E cookie \in CookiesFor(n) :
       Answered(n) /\ Arrive(n, SessionUrl, cookie)
  \/ SessionWork

SpecSession == SessionSpecInit /\ [][SessionNext]_vars

\* ------------------------------------------------------------------------
\* The id specification: the session handler under settings whose id length
\* and server identifier vary
\* ------------------------------------------------------------------------

\* the values of Settings.sessionLength
IdLengths == {2, 3, 4}

\* the values of Settings.serverID
ServerIDs == { <<>>, <<"s">>, <<"s", "s">> }

IdSettings ==
  { [MemorySettings EXCEPT !.sessionLength = l, !.serverID = id] :
      l \in IdLengths, id \in ServerIDs }

\* the server after self.url(SessionUrl, function, {session: true})
IdInit ==
  /\ \E settings \in IdSettings :
       /\ Settings = settings
       /\ SessionStore = InitStore(settings)
  /\ filters = <<>>
  /\ handlers = HandlerUrl(<<>>, StrExpression(SessionUrl), "Function", SessionOptions)
  /\ registered = <<>>
  /\ list = <<>>
  /\ files = <<>>
  /\ fsOps = {}
  /\ heap = [i \in 1..MaxRequests |-> EmptyObject]
  /\ now = 1
  /\ reqs = [i \in 1..MaxRequests |-> NoRequest]
  /\ MatcherIdle
  /\ SideIdle

\* requests that present no _wsid cookie or the one an earlier response set,
\* the handler's res.end and the clock
IdNext ==
  \/ \E n \in 1..MaxRequests :
       \E cookie \in {NoCookie} \cup UNION {Issued(m) : m \in 1..(n - 1)} :
         Answered(n) /\ Arrive(n, SessionUrl, cookie)
  \/ \E n \in 1..MaxRequests : \E p \in Passes(n) :
       reqs[n].res.ends = 0 /\ UserEnd(n, p)
  \/ Quiet /\ Tick

SpecNewID == IdInit /\ [][IdNext]_vars

\* ------------------------------------------------------------------------
\* The throw specification: a filter and a session handler whose functions
\* call next() and res.end() until the response is ended and may throw, before
\* or after that; a request arrives when a handler of the one before has thrown
\* ------------------------------------------------------------------------

\* the server after self.filter(SessionUrl, function) and
\* self.url(SessionUrl, function, {session: true})
ThrowInit ==
  /\ \E showError \in BOOLEAN :
       Settings = [MemorySettings EXCEPT !.showError = showError]
  /\ SessionStore = InitStore(MemorySettings)
  /\ filters = FilterFilter(<<>>, StrExpression(SessionUrl), NoOptions)
  /\ handlers = HandlerUrl(<<>>, StrExpression(SessionUrl), "Function", SessionOptions)
  /\ registered = <<>>
  /\ list = <<>>
  /\ files = <<>>
  /\ fsOps = {}
  /\ heap = [i \in 1..MaxRequests |-> EmptyObject]
  /\ now = 1
  /\ reqs = [i \in 1..MaxRequests |-> NoRequest]
  /\ MatcherIdle
  /\ SideIdle

ThrowNext ==
  \/ \E n \in 1..MaxRequests :
       (\A m \in 1..(n - 1) : reqs[m].open /\ reqs[m].throws # <<>>)
         /\ Arrive(n, SessionUrl, NoCookie)
  \/ \E n \in 1..MaxRequests : \E p \in Passes(n) :
       reqs[n].res.ends = 0 /\ UserNext(n, p)
  \/ \E n \in 1..MaxRequests : \E p \in Passes(n) :
       reqs[n].res.ends = 0 /\ UserEnd(n, p)
  \/ \E n \in 1..MaxRequests : \E p \in Passes(n) :
       \E value \in ThrownValues, catcher \in {0} \cup Passes(n) :
         reqs[n].throws = <<>> /\ UserThrow(n, p, value, catcher)

SpecThrow == ThrowInit /\ [][ThrowNext]_vars

\* ------------------------------------------------------------------------
\* The fault specification: the session handler on the file store, whose
\* reads, writes and deletes may fail
\* ------------------------------------------------------------------------

\* the session directory holds the session of OldSid, with every key set and
\* last accessed at the time the run starts
FaultInit ==
  /\ Settings = FileSettings
  /\ SessionStore = InitStore(FileSettings)
  /\ filters = <<>>
  /\ handlers = HandlerUrl(<<>>, StrExpression(SessionUrl), "Function", SessionOptions)
  /\ registered = <<>>
  /\ list = <<>>
  /\ files = [s \in {OldSid} |->
                [NewSessionObject(1) EXCEPT !.data = [k \in Keys |-> "v"]]]
  /\ fsOps = {}
  /\ heap = [i \in 1..MaxRequests |-> EmptyObject]
  /\ now = 1
  /\ reqs = [i \in 1..MaxRequests |-> NoRequest]
  /\ MatcherIdle
  /\ SideIdle

FaultNext ==
  \/ \E n \in 1..MaxRequests : \E cookie \in {NoCookie, OldSid} :
       Answered(n) /\ Arrive(n, SessionUrl, cookie)
  \/ \E n \in 1..MaxRequests : \E p \in Passes(n) : StoreRead(n, p)
  \/ \E n \in 1..MaxRequests : \E p \in Passes(n) : StoreReadFailed(n, p)
  \/ \E o \in fsOps : FsWriteDone(o)
  \/ \E o \in fsOps : FsWriteFailed(o)
  \/ \E o \in fsOps : FsUnlinkDone(o)
  \/ \E o \in fsOps : FsUnlinkFailed(o)
  \/ \E n \in 1..MaxRequests : \E p \in Passes(n) :
       reqs[n].res.ends = 0 /\ UserEnd(n, p)

SpecFault == FaultInit /\ [][FaultNext]_vars

\* ------------------------------------------------------------------------
\* The sweep specification: the memory store, its periodic clearHandler, and
\* long idle times
\* ------------------------------------------------------------------------

\* mutant of ClearValid: a session is kept while its age is below the timeout
ClearValidStrict(session) ==
  session.last # 0 /\ now - session.last < Settings.sessionTimeout

\* isValid of clearHandler:
\*   last && ((new Date() - last) || 0 <= Settings.sessionTimeout * 2)
\* in which || takes the age when it is not 0 and the comparison otherwise
ClearValid(session) ==
  /\ session.last # 0
  /\ IF now - session.last # 0 THEN TRUE ELSE 0 <= Settings.sessionTimeout * 2

\* MemoryStore's clearHandler runs (the interval set when the list was made)
Sweep ==
  /\ list # <<>>
  /\ LET keep == {sid \in DOMAIN list : ClearValid(heap[list[sid]])}
     IN  /\ list' = [sid \in keep |-> list[sid]]
         /\ sweep' = [at   |-> now,
                       gone |-> sweep.gone \cup
                                  {[sid |-> sid, last |-> heap[list[sid]].last, at |-> now] :
                                     sid \in DOMAIN list \ keep}]
  /\ UNCHANGED <<Settings, SessionStore, filters, handlers, files, fsOps, heap, now, reqs, registered, tpl, assigned, uncaught>>
  /\ UNCHANGED matchVars

\* no request arrives for longer than twice the session timeout
Idle ==
  /\ now <= MaxTime
  /\ now' = now + 2 * Settings.sessionTimeout + 1
  /\ UNCHANGED <<Settings, SessionStore, filters, handlers, list, files, fsOps, heap, reqs, registered>>
  /\ UNCHANGED matchVars
  /\ UNCHANGED sideVars

SweepInit ==
  /\ SessionSpecInit
  /\ SessionStore = "MemoryStore"

SweepNext ==
  \/ \E n \in 1..MaxRequests : \E cookie \in {NoCookie} \cup UNION {Issued(m) : m \in 1..(n - 1)} :
       Answered(n) /\ Arrive(n, SessionUrl, cookie)
  \/ \E n \in 1..MaxRequests : \E p \in Passes(n) : \E k \in {FirstKey}, v \in Vals :
       reqs[n].res.ends = 0 /\ UserSet(n, p, k, v)
  \/ \E n \in 1..MaxRequests : \E p \in Passes(n) :
       reqs[n].res.ends = 0 /\ UserEnd(n, p)
  \/ Quiet /\ Tick
  \/ Quiet /\ Idle
  \/ Sweep

SpecSweep == SweepInit /\ [][SweepNext]_vars

\* the expiry specification: the session specification with requests that
\* all present a well-formed session cookie
ExpiryNext ==
  \/ \E n \in 1..MaxRequests : \E cookie \in WellFormedFor(n) :
       Answered(n) /\ Arrive(n, SessionUrl, cookie)
  \/ SessionWork

SpecExpiry == SessionSpecInit /\ [][ExpiryNext]_vars


\* ------------------------------------------------------------------------
\* Claims about the matcher (checked under SpecMatch)
\* ------------------------------------------------------------------------

\* the expression has a parameter marker
IsParamExpr(e) == \E i \in 0..Len(e) : OccursAt(e, <<"/", ":">>, i)

\* the segments of a path or an expression, a leading "/" set aside
Segments(s) == SplitSlash(IF CharAt(s, 0) = "/" THEN Tail(s) ELSE s)

IsParamSegment(seg) == CharAt(seg, 0) = ":"

\* the URL-decoded segment, the raw one when it does not decode
Decoded(seg) ==
  LET d == DecodeURIComponent(seg) IN IF d.ok THEN d.val ELSE seg

\* the part of a URL before its first "?"
PathOf(url) ==
  IF \E i \in 1..Len(url) : url[i] = "?"
  THEN SubSeq(url, 1, (CHOOSE i \in 1..Len(url) :
                         url[i] = "?" /\ \A j \in 1..(i - 1) : url[j] # "?") - 1)
  ELSE url

HasQuery(url) == \E i \in 1..Len(url) : url[i] = "?"

Str_m == <<"/", "m">>
Str_more_x == <<"/", "m", "o", "r", "e", "/", "x">>
Str_m_x == <<"/", "m", "/", "x">>
Str_m_query == <<"/", "m", "?", "x", "=", "1">>

\* C6: strict matching of a literal expression without parameter markers
\* succeeds iff the literal occurs in the URL at offset 0 or 1 and is followed
\* by the end of the string, "/" or "?"; "/m" does not match "/more/x" and
\* matches "/m", "/m/x" and "/m?x=1"
C6_StrictLiteralMatch ==
  /\ (mRes.op = "matchString" /\ mStrict /\ ~IsParamExpr(mExpr)) =>
       (Truthy(mRes.res) <=>
          \E off \in {0, 1} :
            /\ OccursAt(mUrl, mExpr, off)
            /\ CharAt(mUrl, off + Len(mExpr)) \in {"", "/", "?"})
  /\ ~Truthy(matchString(Str_more_x, TRUE, Str_m))
  /\ Truthy(matchString(Str_m, TRUE, Str_m))
  /\ Truthy(matchString(Str_m_x, TRUE, Str_m))
  /\ Truthy(matchString(Str_m_query, TRUE, Str_m))

\* a strict match of "/m" on "/m/x" succeeded
C6_Witness ==
  /\ mRes.op = "matchString"
  /\ mStrict
  /\ mExpr = Str_m
  /\ mUrl = Str_m_x
  /\ Truthy(mRes.res)

\* the parameterized call whose result the state holds was made on a path
ParamCall ==
  /\ mRes.op \in {"matchString", "parseUrl"}
  /\ IsParamExpr(mExpr)
  /\ ~HasQuery(mUrl)

\* a literal segment of the expression that the path does not have or has
\* differently
LiteralMismatch ==
  LET e == Segments(mExpr)
      u == Segments(mUrl)
  IN  \E i \in 1..Len(e) :
        ~IsParamSegment(e[i]) /\ (i > Len(u) \/ e[i] # u[i])

\* the parameter map the claim describes: each name has the decoded segment at
\* its position (the last such position when a name repeats), "" when the path
\* has no segment there
ExpectedParams ==
  LET e     == Segments(mExpr)
      u     == Segments(mUrl)
      at(i) == IF i > Len(u) THEN <<>> ELSE Decoded(u[i])
      pos   == {i \in 1..Len(e) : IsParamSegment(e[i])}
      names == {SubstrFrom(e[i], 1) : i \in pos}
      last(name) == CHOOSE i \in pos :
                      /\ SubstrFrom(e[i], 1) = name
                      /\ \A j \in pos : SubstrFrom(e[j], 1) = name => j <= i
  IN  [name \in names |-> at(last(name))]

\* C7 as stated: with equal segment counts and equal literal segments the
\* match returns the map of decoded segments; with any segment-count mismatch or
\* literal mismatch it returns false
C7_Original ==
  ParamCall =>
    IF Len(Segments(mExpr)) = Len(Segments(mUrl)) /\ ~LiteralMismatch
    THEN mRes.res = Params(ExpectedParams)
    ELSE mRes.res = NoMatch

\* C7 (amended): the match returns false iff some literal segment of the
\* expression differs from the path's segment at that position or the path has
\* no segment there; otherwise it returns the map giving each parameter name the
\* decoded segment at its position, "" when the path is shorter, and segments of
\* the path beyond the expression's are ignored
C7_ParamMatchAmended ==
  ParamCall =>
    IF LiteralMismatch
    THEN mRes.res = NoMatch
    ELSE mRes.res = Params(ExpectedParams)

\* "/:a" matched a path with an escaped segment, and the map has it decoded
C7_Witness ==
  /\ ParamCall
  /\ mExpr = <<"/", ":", "a">>
  /\ mUrl = <<"/", "%", "2", "2">>
  /\ mRes.res = Params([n \in {<<"a">>} |-> <<"\"">>])

Str_home_id == <<"/", "h", "o", "m", "e", "/", ":", "i", "d">>
Str_home_42_query == <<"/", "h", "o", "m", "e", "/", "4", "2", "?", "x", "=", "1">>

\* C8: matching a parameterized expression against P?Q gives what matching it
\* against P gives; "/home/:id" on "/home/42?x=1" gives id = "42"
C8_QueryIgnored ==
  /\ (mRes.op \in {"matchString", "parseUrl"} /\ IsParamExpr(mExpr)) =>
       mRes.res = matchString(PathOf(mUrl), mStrict, mExpr)
  /\ matchString(Str_home_42_query, TRUE, Str_home_id)
       = Params([n \in {<<"i", "d">>} |-> <<"4", "2">>])

\* "/:a" matched "/m?x" with a = "m"
C8_Witness ==
  /\ mRes.op = "matchString"
  /\ mExpr = <<"/", ":", "a">>
  /\ mUrl = <<"/", "m", "?", "x">>
  /\ mRes.res = Params([n \in {<<"a">>} |-> <<"m">>])


\* ------------------------------------------------------------------------
\* Claims about the filter chain and handler dispatch (checked under Spec)
\* ------------------------------------------------------------------------

OpenReqs == {n \in DOMAIN reqs : reqs[n].open}

FilterPasses(n) == {p \in Passes(n) : reqs[n].passes[p].reg = "filter"}

HandlerPasses(n) == {p \in Passes(n) : reqs[n].passes[p].reg = "handler"}

\* the filters and the handlers whose expression matches the request's URL
MatchingFilters(n) == {i \in DOMAIN filters : match(filters[i], reqs[n].url, FALSE)}

MatchingHandlers(n) == {j \in DOMAIN handlers : match(handlers[j], reqs[n].url, TRUE)}

\* request n's chain stands at filter i: no later filter was fetched, the
\* chain's callback never ran, no handler rule was acted on and fileHandler
\* was not called
HaltedAt(n, i) ==
  /\ reqs[n].idx = i
  /\ \A k \in DOMAIN reqs[n].visited : reqs[n].visited[k] <= i
  /\ reqs[n].dispatched = <<>>
  /\ HandlerPasses(n) = {}
  /\ reqs[n].statics = 0
  /\ reqs[n].stats = 0
  /\ reqs[n].reads = 0

\* C1 as stated: when a filter matched a request and its handler never called
\* next(), no later filter is evaluated, no handler of the handler registry is
\* dispatched and the static file resolver is not invoked for that request.
C1_Original ==
  \A n \in OpenReqs : \A p \in FilterPasses(n) :
    reqs[n].passes[p].nexts = 0 => HaltedAt(n, reqs[n].passes[p].i)

\* C1 amended: when a filter matched a request and no handler of the request
\* has called next() since that filter was reached (its own handler never, the
\* handlers of earlier filters not again), no later filter is evaluated, no
\* handler of the handler registry is dispatched and the static file resolver
\* is not invoked for that request.
C1_CallerDriven ==
  \A n \in OpenReqs : \A p \in FilterPasses(n) :
    NextCalls(reqs[n]) = reqs[n].passes[p].base => HaltedAt(n, reqs[n].passes[p].i)

\* an earlier filter advanced the chain, the next matching filter's handler
\* ended the response without calling next(), and filters and handlers that
\* match the request remain behind it
C1_Witness ==
  \E n \in OpenReqs : \E p \in FilterPasses(n) :
    LET pass == reqs[n].passes[p]
    IN  /\ pass.at = "invoked"
        /\ pass.base = 1
        /\ NextCalls(reqs[n]) = 1
        /\ reqs[n].res.ends = 1
        /\ \E i \in MatchingFilters(n) : i > pass.i
        /\ MatchingHandlers(n) # {}

\* every filter handler that ran has called next() at most once
AtMostOnce(n) == \A p \in FilterPasses(n) : reqs[n].passes[p].nexts <= 1

\* every filter that matches the request has run and its handler has called
\* next() exactly once
AllAdvancedOnce(n) ==
  /\ AtMostOnce(n)
  /\ \A i \in MatchingFilters(n) :
       \E p \in FilterPasses(n) :
         reqs[n].passes[p].i = i /\ reqs[n].passes[p].nexts = 1

\* the filters are fetched one by one from the first
InRegistryOrder(n) == reqs[n].visited = [k \in 1..Len(reqs[n].visited) |-> k]

\* C2: when every matching filter's handler advances the chain exactly once,
\* every filter is examined once, in registry order; a filter that does not
\* match is skipped and its handler does not run; and the chain's callback
\* runs exactly once, after the last filter.
C2_ChainCompletes ==
  \A n \in OpenReqs :
    /\ AtMostOnce(n) =>
         /\ InRegistryOrder(n)
         /\ \A i \in Range(reqs[n].visited) :
              Cardinality({p \in FilterPasses(n) : reqs[n].passes[p].i = i})
                = IF i \in MatchingFilters(n) THEN 1 ELSE 0
         /\ Len(reqs[n].dispatched) <= 1
         /\ reqs[n].dispatched # <<>> =>
              /\ Len(reqs[n].visited) = Len(filters)
              /\ reqs[n].idx = Len(filters) + 1
    /\ AllAdvancedOnce(n) =>
         /\ Len(reqs[n].visited) = Len(filters)
         /\ Len(reqs[n].dispatched) = 1

\* two matching filters each advanced once, a filter that does not match lay
\* between or around them, and the callback ran
C2_Witness ==
  \E n \in OpenReqs :
    /\ AllAdvancedOnce(n)
    /\ Cardinality(MatchingFilters(n)) >= 2
    /\ \E i \in DOMAIN filters : i \notin MatchingFilters(n)
    /\ Len(reqs[n].dispatched) = 1

\* the mapper a registration call puts in the filter list, and where it is
MapperOf(c) == FilterRegister(<<>>, c)[1]

PosOf(c) == CHOOSE i \in DOMAIN filters : filters[i] = MapperOf(c)

AllListed ==
  /\ Len(filters) = Len(registered)
  /\ \A a \in DOMAIN registered : MapperOf(registered[a]) \in Range(filters)

\* C3 as stated, a file-upload filter being a rule whose file flag is set:
\* every file-upload filter stands before every other filter, the other
\* filters stand in registration order, and a chain visits the rules in
\* registry order.
C3_Original ==
  /\ AllListed
  /\ \A i, j \in DOMAIN filters :
       filters[i].file /\ ~filters[j].file => i < j
  /\ \A a, b \in DOMAIN registered :
       (a < b /\ ~MapperOf(registered[a]).file /\ ~MapperOf(registered[b]).file)
         => PosOf(registered[a]) < PosOf(registered[b])
  /\ \A n \in OpenReqs : InRegistryOrder(n)

\* C3 amended: every filter registered with file() stands before every filter
\* registered with filter() or session(), the filters registered with
\* filter() or session() stand in registration order (whatever their
\* options), and a chain visits the rules in registry order.
C3_FileFiltersFirst ==
  /\ AllListed
  /\ \A a, b \in DOMAIN registered :
       (registered[a].api = "file" /\ registered[b].api # "file")
         => PosOf(registered[a]) < PosOf(registered[b])
  /\ \A a, b \in DOMAIN registered :
       (a < b /\ registered[a].api # "file" /\ registered[b].api # "file")
         => PosOf(registered[a]) < PosOf(registered[b])
  /\ \A n \in OpenReqs : InRegistryOrder(n)

\* file() was called after two other registrations and a request went through
\* at least two rules
C3_Witness ==
  /\ \E b \in DOMAIN registered : b >= 3 /\ registered[b].api = "file"
  /\ \E n \in OpenReqs : Len(reqs[n].visited) >= 2

Count(seq, x) == Cardinality({k \in DOMAIN seq : seq[k] = x})

\* C4: every run of the dispatch acts on the first handler rule, in
\* registration order, that strictly matches the request, and on no other
\* rule whatever becomes of that handler's processing; fileHandler is called
\* in exactly the runs in which no handler rule matches.
C4_FirstMatchWins ==
  \A n \in OpenReqs :
    /\ \A k \in DOMAIN reqs[n].dispatched :
         LET j == reqs[n].dispatched[k]
         IN  IF MatchingHandlers(n) = {}
             THEN j = 0
             ELSE j \in MatchingHandlers(n) /\ \A m \in MatchingHandlers(n) : j <= m
    /\ reqs[n].statics = Count(reqs[n].dispatched, 0)
    /\ MatchingHandlers(n) # {} => reqs[n].statics = 0 /\ reqs[n].stats = 0
    /\ \A p \in HandlerPasses(n) : reqs[n].passes[p].i \in Range(reqs[n].dispatched)
    /\ Cardinality(HandlerPasses(n)) <= Len(reqs[n].dispatched)

\* two handler rules match the request behind one that does not; the first of
\* the two, a file handler, was acted on and its read failed: nothing was
\* sent and nothing else was tried
C4_Witness ==
  \E n \in OpenReqs :
    /\ Cardinality(MatchingHandlers(n)) >= 2
    /\ Len(reqs[n].dispatched) = 1
    /\ \E j \in DOMAIN handlers : j \notin MatchingHandlers(n) /\ j < reqs[n].dispatched[1]
    /\ handlers[reqs[n].dispatched[1]].handler = "Array"
    /\ reqs[n].reads = 0
    /\ reqs[n].res.ends = 0


\* ------------------------------------------------------------------------
\* The pipeline specification: one handler rule with any options, either
\* store, and one request
\* ------------------------------------------------------------------------

\* the options objects a rule is registered with
PipelineOptions ==
  [type : {"object"}, post : {"none", "qs", "json"}, file : BOOLEAN, session : BOOLEAN]

\* the server after self.url(SessionUrl, function, options); the session
\* directory is empty or holds the file of a session last accessed at 1
PipelineInit ==
  /\ \E settings \in {MemorySettings, FileSettings} :
       /\ Settings = settings
       /\ SessionStore = InitStore(settings)
  /\ filters = <<>>
  /\ \E o \in PipelineOptions :
       handlers = HandlerUrl(<<>>, StrExpression(SessionUrl), "Function", o)
  /\ registered = <<>>
  /\ list = <<>>
  /\ \/ files = <<>>
     \/ /\ SessionStore = "FileStore"
        /\ files = [s \in {OldSid} |-> NewSessionObject(1)]
  /\ fsOps = {}
  /\ heap = [i \in 1..MaxRequests |-> EmptyObject]
  /\ now = 1
  /\ reqs = [i \in 1..MaxRequests |-> NoRequest]
  /\ MatcherIdle
  /\ SideIdle

PipelineNext ==
  \/ \E cookie \in {NoCookie, OldSid} : Arrive(1, SessionUrl, cookie)
  \/ \E p \in Passes(1), err \in BOOLEAN : FormParsed(1, p, err)
  \/ \E p \in Passes(1), good \in BOOLEAN : BodyEnd(1, p, good)
  \/ \E p \in Passes(1) : StoreRead(1, p)
  \/ \E p \in Passes(1) : UserEnd(1, p)
  \/ Tick

SpecPipeline == PipelineInit /\ [][PipelineNext]_vars


\* ------------------------------------------------------------------------
\* The store specification: the session rule's requests while the
\* application assigns to self.sessionStore
\* ------------------------------------------------------------------------

\* the stores an application makes: the operations each one has
StoreNames == {"StoreA", "StoreB"}
StoreObjects ==
  [name : StoreNames, get : {TRUE}, set : {TRUE}, del : {TRUE}] \cup
  [name : {"StoreA"}, get : BOOLEAN, set : BOOLEAN, del : BOOLEAN]

\* the assignments to self.sessionStore the model follows
MaxAssignments == 2

\* mutant of Accepts: a store that has get is taken
AcceptsWithGet(sessionStore) == sessionStore.get

\* the test of the sessionStore setter
Accepts(sessionStore) == sessionStore.get /\ sessionStore.set /\ sessionStore.del

\* self.sessionStore = sessionStore
SetSessionStore(sessionStore) ==
  /\ assigned.calls < MaxAssignments
  /\ SessionStore' = IF Accepts(sessionStore) THEN sessionStore.name ELSE SessionStore
  /\ assigned' = [calls    |-> assigned.calls + 1,
                  last     |-> sessionStore,
                  accepted |-> assigned.accepted \/ Accepts(sessionStore),
                  rejected |-> assigned.rejected \/ ~Accepts(sessionStore)]
  /\ UNCHANGED <<Settings, filters, handlers, list, files, fsOps, heap, now, reqs, registered, sweep, tpl, uncaught>>
  /\ UNCHANGED matchVars

\* what the get of a store of the application hands to its callback: nothing,
\* or a session last accessed at some time
CustomSessions == {EmptyObject} \cup {NewSessionObject(t) : t \in 1..now}

\* a store of the application calls back the getSession of pass p
CustomRead(n, p, session) ==
  /\ reqs[n].open
  /\ p \in DOMAIN reqs[n].passes
  /\ reqs[n].passes[p].at = "custom"
  /\ \E ch \in Choices :
       Commit(GetSession([World(n) EXCEPT !.heap[n] = session], p, ch, n))
  /\ UNCHANGED <<Settings, SessionStore, filters, handlers, files, now, registered>>
  /\ UNCHANGED matchVars
  /\ UNCHANGED sideVars

StoreNext ==
  \/ \E n \in 1..MaxRequests : \E cookie \in {NoCookie} \cup UNION {Issued(m) : m \in 1..(n - 1)} :
       Answered(n) /\ Arrive(n, SessionUrl, cookie)
  \/ \E n \in 1..MaxRequests : \E p \in Passes(n) : StoreRead(n, p)
  \/ \E n \in 1..MaxRequests : \E p \in Passes(n) : \E session \in CustomSessions :
       CustomRead(n, p, session)
  \/ \E o \in fsOps : FsWriteDone(o)
  \/ \E o \in fsOps : FsUnlinkDone(o)
  \/ \E n \in 1..MaxRequests : \E p \in Passes(n) : reqs[n].res.ends = 0 /\ UserEnd(n, p)
  \/ \E sessionStore \in StoreObjects : SetSessionStore(sessionStore)

SpecStore == SessionSpecInit /\ [][StoreNext]_vars

\* ------------------------------------------------------------------------
\* Claims about the sessionStore property (checked under SpecStore)
\* ------------------------------------------------------------------------

\* the store operations the step adds to the log of request n
NewOps(n) == {reqs'[n].ops[k] : k \in (Len(reqs[n].ops) + 1)..Len(reqs'[n].ops)}

\* the step is an assignment to self.sessionStore
Assigns == assigned'.calls = assigned.calls + 1

\* C17: an assignment to sessionStore of a store that lacks get, set or del
\* leaves the store in use as it was; an assignment of a store that has all
\* three makes it the store in use, and every session operation goes to the
\* store in use when it is made.
C17_StoreReplacement ==
  [][/\ Assigns =>
         LET store == assigned'.last
         IN  IF store.get /\ store.set /\ store.del
             THEN SessionStore' = store.name
             ELSE SessionStore' = SessionStore
      /\ \A n \in 1..MaxRequests :
           \A o \in NewOps(n) : o.store = SessionStore /\ o.store = SessionStore'
      /\ ~Assigns => SessionStore' = SessionStore]_vars

\* a store was turned down, a store was taken, and a get, a set and a del
\* went to the store that was taken
C17_Witness ==
  /\ assigned.accepted
  /\ assigned.rejected
  /\ \E n \in 1..MaxRequests :
       \A op \in {"get", "set", "del"} :
         \E k \in DOMAIN reqs[n].ops :
           /\ reqs[n].ops[k].op = op
           /\ reqs[n].ops[k].store = SessionStore
           /\ SessionStore \in StoreNames

\* ------------------------------------------------------------------------
\* The template specification: renders of the template files through
\* self.render with an outFn, the fs.readFile callbacks in any order, and
\* self.clear
\* ------------------------------------------------------------------------

\* the renders the model follows
MaxRenders == 3

\* the texts a template file can hold
TemplateTexts == {<<>>, <<"z">>, <<"x", "#b">>}

TemplateDisks ==
  [TemplateFiles -> {NoFile} \cup {[exists |-> TRUE, text |-> x] : x \in TemplateTexts}]

\* the application calls self.render(tmplUrl, model, outFn)
Render(tmplUrl) ==
  /\ Len(tpl.renders) < MaxRenders
  /\ tpl' = TemplateRender(tpl, tmplUrl, 0)
  /\ UNCHANGED <<Settings, SessionStore, filters, handlers, list, files, fsOps, heap, now, reqs, registered, sweep, assigned, uncaught>>
  /\ UNCHANGED matchVars

\* the callback of the fs.readFile call reads[i] of getFile; the output of a
\* render made through res.render goes to that response's end
TemplateReadDone(i) ==
  /\ i \in DOMAIN tpl.reads
  /\ LET t == TemplateRead(tpl, i)
         r == tpl.reads[i].render
         n == t.renders[r].res
     IN  /\ tpl' = t
         /\ IF tpl.reads[i].cb /\ n # 0
            THEN Commit(ResEnd(World(n), t.renders[r].out))
            ELSE UNCHANGED <<reqs, list, fsOps, heap>>
  /\ UNCHANGED <<Settings, SessionStore, filters, handlers, files, now, registered, sweep, assigned, uncaught>>
  /\ UNCHANGED matchVars

\* the application calls self.clear()
Clear ==
  /\ tpl' = TemplateClear(tpl)
  /\ UNCHANGED <<Settings, SessionStore, filters, handlers, list, files, fsOps, heap, now, reqs, registered, sweep, assigned, uncaught>>
  /\ UNCHANGED matchVars

TemplateInit ==
  /\ \E c \in BOOLEAN : ServerInit([MemorySettings EXCEPT !.templateCache = c])
  /\ MatcherIdle
  /\ uncaught = <<>>
  /\ sweep = NeverSwept
  /\ assigned = NeverAssigned
  /\ \E disk \in TemplateDisks : tpl = NewTemplate(disk)

TemplateNext ==
  \/ \E tmplUrl \in TemplateFiles : Render(tmplUrl)
  \/ \E i \in DOMAIN tpl.reads : TemplateReadDone(i)
  \/ Clear

SpecTemplate == TemplateInit /\ [][TemplateNext]_vars

\* ------------------------------------------------------------------------
\* Claims about the template cache (checked under SpecTemplate)
\* ------------------------------------------------------------------------

Renders == DOMAIN tpl.renders

\* C15: with template caching enabled, a render that begins after a render of
\* the same template has completed, with no clear() in between, makes no
\* fs.readFile call, neither for the template nor for a template it includes.
C15_SecondRenderReadsNothing ==
  \A r \in Renders : tpl.renders[r].again => tpl.renders[r].reads = 0

\* a second render of a template, both completed
C15_Witness ==
  \E r \in Renders : tpl.renders[r].again /\ tpl.renders[r].done

\* two renders of one template are a pair the cache covers: caching is
\* enabled, both completed, and the later one began after the earlier one had
\* completed with no clear() since
CachedPair(q, r) ==
  /\ q < r
  /\ Settings.templateCache
  /\ tpl.renders[q].name = tpl.renders[r].name
  /\ tpl.renders[q].done /\ tpl.renders[r].done
  /\ ~tpl.renders[q].stale
  /\ tpl.renders[r].again

\* C16: with template caching enabled, unchanged files and an unchanged
\* model, two renders of the same template give the same output, also for a
\* template with include directives.
C16_RenderIdempotent ==
  \A q, r \in Renders : CachedPair(q, r) => tpl.renders[q].out = tpl.renders[r].out

\* a template with an include directive rendered twice
C16_Witness ==
  \E q, r \in Renders :
    /\ CachedPair(q, r)
    /\ tpl.disk[tpl.renders[q].name].exists
    /\ \E k \in DOMAIN tpl.disk[tpl.renders[q].name].text :
         IncludeFile(tpl.disk[tpl.renders[q].name].text[k]) # NoTemplate

\* ------------------------------------------------------------------------
\* The static specification: a server without filters and handlers, so that
\* every request goes to fileHandler; requests arrive one after the other's
\* response
\* ------------------------------------------------------------------------

\* the settings the requests meet: client caching on or off and a 404
\* template or none; directory listing on, and no default page
StaticSettings ==
  {[MemorySettings EXCEPT !.cache = c, !.page404 = t] : c \in BOOLEAN, t \in {NoTemplate, "a"}}
    \cup {[MemorySettings EXCEPT !.listDir = TRUE], [MemorySettings EXCEPT !.defaultPage = ""]}

\* the template directory: the 404 template is missing, plain, or has an
\* include
StaticDisks ==
  {[f \in TemplateFiles |-> IF f = "a" THEN a ELSE [exists |-> TRUE, text |-> <<"z">>]] :
     a \in {NoFile, [exists |-> TRUE, text |-> <<"z">>], [exists |-> TRUE, text |-> <<"x", "#b">>]}}

\* Template after renders have read every template file there is
PrimedTemplate(disk) ==
  [NewTemplate(disk) EXCEPT
     !.pool = [f \in {g \in TemplateFiles : disk[g].exists} |-> disk[f].text]]

StaticInit ==
  /\ \E settings \in StaticSettings : ServerInit(settings)
  /\ MatcherIdle
  /\ uncaught = <<>>
  /\ sweep = NeverSwept
  /\ assigned = NeverAssigned
  /\ IF Settings.page404 = NoTemplate
     THEN tpl = NewTemplate([f \in TemplateFiles |-> NoFile])
     ELSE \E disk \in StaticDisks : tpl \in {NewTemplate(disk), PrimedTemplate(disk)}

StaticUrls == {<<"/", "a">>, <<"/", "a", "/">>, <<"/", "a", "?", "q">>}

\* what fs.stat can answer, and the If-Modified-Since headers requests carry
StatResults == {NoSuchPath, Directory, OtherPath} \cup {FileAt(t) : t \in 0..MaxTime}
SinceTimes == {NoHeader} \cup 0..MaxTime

StaticNext ==
  \/ \E url \in StaticUrls, since \in SinceTimes : ArriveWith(1, url, NoCookie, since)
  \/ \E stat \in StatResults : StatDone(1, stat)
  \/ \E exists \in BOOLEAN : ExistsDone(1, exists)
  \/ ListDone(1)
  \/ \E err \in BOOLEAN : ReadDone(1, err)
  \/ \E i \in DOMAIN tpl.reads : TemplateReadDone(i)

SpecStatic == StaticInit /\ [][StaticNext]_vars

\* ------------------------------------------------------------------------
\* The not-found specification: one request, for a path left to the static
\* resolver or for a path a file is bound to
\* ------------------------------------------------------------------------

BoundUrl == <<"/", "b">>
UnboundUrl == <<"/", "a">>

\* the server after self.url(BoundUrl, [file])
NotFoundInit ==
  /\ \E settings \in StaticSettings :
       /\ Settings = settings
       /\ SessionStore = InitStore(settings)
  /\ filters = <<>>
  /\ handlers = HandlerUrl(<<>>, StrExpression(BoundUrl), "Array", NoOptions)
  /\ registered = <<>>
  /\ list = <<>>
  /\ files = <<>>
  /\ fsOps = {}
  /\ heap = [i \in 1..MaxRequests |-> EmptyObject]
  /\ now = 1
  /\ reqs = [i \in 1..MaxRequests |-> NoRequest]
  /\ MatcherIdle
  /\ uncaught = <<>>
  /\ sweep = NeverSwept
  /\ assigned = NeverAssigned
  /\ IF Settings.page404 = NoTemplate
     THEN tpl = NewTemplate([f \in TemplateFiles |-> NoFile])
     ELSE \E disk \in StaticDisks : tpl \in {NewTemplate(disk), PrimedTemplate(disk)}

\* the callbacks of the file system
NotFoundWork ==
  \/ \E stat \in {NoSuchPath, Directory, FileAt(MaxTime)} : StatDone(1, stat)
  \/ \E exists \in BOOLEAN : ExistsDone(1, exists)
  \/ ListDone(1)
  \/ \E err \in BOOLEAN : ReadDone(1, err)
  \/ \E i \in DOMAIN tpl.reads : TemplateReadDone(i)

NotFoundNext ==
  \/ \E url \in {UnboundUrl, BoundUrl} : ArriveWith(1, url, NoCookie, NoHeader)
  \/ NotFoundWork

SpecNotFound == NotFoundInit /\ [][NotFoundNext]_vars

\* every file-system call that was started calls back
LiveNotFound == SpecNotFound /\ WF_vars(NotFoundWork)

\* ------------------------------------------------------------------------
\* The cookie specification: a session filter for every request, in front of
\* a function handler, a literal-string handler and the static resolver
\* ------------------------------------------------------------------------

\* the server after self.session(function), self.url(UnboundUrl, function)
\* and self.url(BoundUrl, string)
CookieInit ==
  /\ Settings = MemorySettings
  /\ SessionStore = InitStore(MemorySettings)
  /\ filters = FilterSession(<<>>, NoExpression, NoOptions)
  /\ handlers = HandlerUrl(HandlerUrl(<<>>, StrExpression(UnboundUrl), "Function", NoOptions),
                           StrExpression(BoundUrl), "String", NoOptions)
  /\ registered = <<>>
  /\ list = <<>>
  /\ files = <<>>
  /\ fsOps = {}
  /\ heap = [i \in 1..MaxRequests |-> EmptyObject]
  /\ now = 1
  /\ reqs = [i \in 1..MaxRequests |-> NoRequest]
  /\ MatcherIdle
  /\ SideIdle

\* the URLs of the cookie specification; nothing is registered for the last
CookieUrls == {UnboundUrl, BoundUrl, <<"/", "c">>}

CookieNext ==
  \/ \E n \in 1..MaxRequests, url \in CookieUrls :
       Answered(n) /\ Arrive(n, url, NoCookie)
  \/ \E n \in 1..MaxRequests : \E p \in Passes(n) :
       reqs[n].res.ends = 0 /\ UserNext(n, p)
  \/ \E n \in 1..MaxRequests : \E p \in Passes(n) :
       reqs[n].res.ends = 0 /\ UserEnd(n, p)
  \/ \E n \in 1..MaxRequests : \E stat \in {NoSuchPath, FileAt(MaxTime)} :
       StatDone(n, stat)
  \/ \E n \in 1..MaxRequests : ReadDone(n, FALSE)

SpecCookie == CookieInit /\ [][CookieNext]_vars

\* ------------------------------------------------------------------------
\* The race specification: requests that carry the id of one stored session
\* and are served at the same time, each setting a key of its own
\* ------------------------------------------------------------------------

\* the object of the stored session in the memory store's list
OldObject == MaxRequests + 1

\* the server after self.url(SessionUrl, function, {session: true}); the store
\* holds the session of OldSid, last accessed at the time the run starts
RaceInit ==
  /\ \E settings \in {MemorySettings, FileSettings} :
       /\ Settings = settings
       /\ SessionStore = InitStore(settings)
  /\ filters = <<>>
  /\ handlers = HandlerUrl(<<>>, StrExpression(SessionUrl), "Function", SessionOptions)
  /\ registered = <<>>
  /\ IF SessionStore = "MemoryStore"
     THEN list = [s \in {OldSid} |-> OldObject] /\ files = <<>>
     ELSE list = <<>> /\ files = [s \in {OldSid} |-> NewSessionObject(1)]
  /\ fsOps = {}
  /\ heap = [i \in 1..OldObject |->
               IF i = OldObject /\ SessionStore = "MemoryStore"
               THEN NewSessionObject(1) ELSE EmptyObject]
  /\ now = 1
  /\ reqs = [i \in 1..MaxRequests |-> NoRequest]
  /\ MatcherIdle
  /\ SideIdle

\* the key the handler sets for request n
KeyOf(n) == IF n = 1 THEN FirstKey ELSE SecondKey

RaceNext ==
  \/ \E n \in 1..MaxRequests : Arrive(n, SessionUrl, OldSid)
  \/ \E n \in 1..MaxRequests : \E p \in Passes(n) : StoreRead(n, p)
  \/ \E n \in 1..MaxRequests : \E p \in Passes(n) : \E v \in Vals :
       reqs[n].res.ends = 0 /\ reqs[n].sets = {} /\ UserSet(n, p, KeyOf(n), v)
  \/ \E n \in 1..MaxRequests : \E p \in Passes(n) :
       reqs[n].res.ends = 0 /\ UserEnd(n, p)
  \/ \E o \in fsOps : FsWriteDone(o)

SpecRace == RaceInit /\ [][RaceNext]_vars

\* ------------------------------------------------------------------------
\* Claims about static files (checked under SpecStatic)
\* ------------------------------------------------------------------------

\* request n matched no filter and no handler, its path is no file and no
\* directory, and its response is ended
NotFoundCase(n) ==
  /\ reqs[n].open
  /\ reqs[n].visited = <<>>
  /\ reqs[n].dispatched = <<0>>
  /\ reqs[n].stat.kind \in {"error", "other"}
  /\ reqs[n].res.ends > 0

\* the text of a template file; a missing file renders as the empty text
TextOf(f) == IF tpl.disk[f].exists THEN tpl.disk[f].text ELSE <<>>

HasInclude(text) == \E k \in DOMAIN text : IncludeFile(text[k]) # NoTemplate

\* C18: a request that matches no filter and no handler and whose path is no
\* file and no directory is answered with status 404; the body is the
\* rendering of the template Settings["404"] names when one is configured,
\* and the text "File not found!" otherwise.
C18_NotFound ==
  \A n \in 1..MaxRequests :
    NotFoundCase(n) =>
      /\ reqs[n].res.statusCode = 404
      /\ reqs[n].res.ends = 1
      /\ IF Settings.page404 = NoTemplate
         THEN reqs[n].res.body = NotFoundBody
         ELSE /\ \E r \in Renders :
                   /\ tpl.renders[r].res = n
                   /\ tpl.renders[r].name = Settings.page404
                   /\ tpl.renders[r].done
                   /\ tpl.renders[r].out = reqs[n].res.body
              /\ ~HasInclude(TextOf(Settings.page404)) =>
                   reqs[n].res.body = engineFunc(TextOf(Settings.page404))

\* a 404 with the configured template's text as its body
C18_Witness ==
  \E n \in 1..MaxRequests :
    /\ NotFoundCase(n)
    /\ Settings.page404 # NoTemplate
    /\ reqs[n].res.body = <<"z">>

\* fs.stat told fileHandler that the path of request n is a file
FileCase(n) ==
  /\ reqs[n].open
  /\ reqs[n].dispatched = <<0>>
  /\ reqs[n].stat.kind = "file"
  /\ reqs[n].stats = 0 /\ reqs[n].exists = 0

\* the condition of a 304: client caching is enabled and the request has an
\* If-Modified-Since time at or after the file's modification time
Unmodified(n) ==
  /\ Settings.cache
  /\ reqs[n].since # NoHeader
  /\ reqs[n].since >= reqs[n].stat.mtime

\* C19: for an existing static file, with client caching enabled and an
\* If-Modified-Since time at or after the modification time the response is
\* 304 without a body and the file is not read; with an earlier time, without
\* the header or with caching disabled the file is read and the response is
\* 200 with its content and a Last-Modified header.
C19_ConditionalGet ==
  \A n \in 1..MaxRequests :
    FileCase(n) =>
      IF Unmodified(n)
      THEN /\ reqs[n].res.ends = 1
           /\ reqs[n].res.statusCode = 304
           /\ reqs[n].res.body = NoBody
           /\ reqs[n].fileReads = 0
      ELSE /\ reqs[n].fileReads = 1
           /\ reqs[n].res.lastModified
           /\ reqs[n].res.ends > 0 =>
                reqs[n].res.statusCode = 200 /\ reqs[n].res.body = FileBody

\* a file sent to a request without an If-Modified-Since header
C19_Witness ==
  \E n \in 1..MaxRequests :
    /\ FileCase(n) /\ ~Unmodified(n)
    /\ reqs[n].since = NoHeader
    /\ reqs[n].res.ends = 1 /\ reqs[n].res.body = FileBody

\* ------------------------------------------------------------------------
\* The pre-check specification: one filter and one handler for the session
\* URL, each with or without a "before" function, and one request
\* ------------------------------------------------------------------------

\* the options of the filter and of the handler
BeforeFilterOptions == {NoOptions, SessionOptions}
BeforeHandlerOptions == PipelineOptions

\* the server after self.filter(SessionUrl, function, options) and
\* self.url(SessionUrl, function, options), and the calls of before(func) on
\* the two rules
BeforeInit ==
  /\ Settings = MemorySettings
  /\ SessionStore = InitStore(MemorySettings)
  /\ \E o \in BeforeFilterOptions, func \in BOOLEAN :
       filters = <<MapperBefore(Mapper(StrExpression(SessionUrl), "Function", o), func)>>
  /\ \E o \in BeforeHandlerOptions, func \in BOOLEAN :
       handlers = <<MapperBefore(Mapper(StrExpression(SessionUrl), "Function", o), func)>>
  /\ registered = <<>>
  /\ list = <<>>
  /\ files = <<>>
  /\ fsOps = {}
  /\ heap = [i \in 1..MaxRequests |-> EmptyObject]
  /\ now = 1
  /\ reqs = [i \in 1..MaxRequests |-> NoRequest]
  /\ MatcherIdle
  /\ SideIdle

BeforeNext ==
  \/ \E cookie \in {NoCookie, OldSid} : Arrive(1, SessionUrl, cookie)
  \/ \E p \in Passes(1), err \in BOOLEAN : FormParsed(1, p, err)
  \/ \E p \in Passes(1), good \in BOOLEAN : BodyEnd(1, p, good)
  \/ \E p \in Passes(1) : UserNext(1, p)
  \/ \E p \in Passes(1) : UserEnd(1, p)

SpecBefore == BeforeInit /\ [][BeforeNext]_vars

\* ------------------------------------------------------------------------
\* Claims about the pre-check (checked under SpecBefore)
\* ------------------------------------------------------------------------

\* the step ends the response of request n with the rejection body
Rejects(n) ==
  /\ Len(reqs'[n].res.bodies) = Len(reqs[n].res.bodies) + 1
  /\ reqs'[n].res.bodies[Len(reqs'[n].res.bodies)] = RejectionBody

\* a pass the pre-check stopped: only the cookies were parsed, and its
\* handler was not entered and made no next() call
Stopped(pass) ==
  /\ pass.mapper.before
  /\ pass.stages = <<"cookie">>
  /\ pass.nexts = 0

StageRank(stage) ==
  CASE stage = "cookie"  -> 1
    [] stage = "file"    -> 2
    [] stage = "body"    -> 3
    [] stage = "session" -> 4
    [] stage = "invoke"  -> 5

\* the stage a pass that waits for a callback is in
StageOf(at) ==
  CASE at = "form"    -> "file"
    [] at = "body"    -> "body"
    [] at = "store"   -> "session"
    [] at = "invoked" -> "invoke"

\* C5: in one pass of a matched rule the stages are entered in the order
\* cookie, file, body, session, invoke, none twice; the pass is in one stage
\* at a time, the last it entered; only stages the rule requires are entered;
\* and when the handler is invoked the cookies are parsed, the body the rule
\* requires is attached and the session the rule requires is attached and
\* loaded.
C5_StageOrder ==
  \A n \in OpenReqs : \A p \in Passes(n) :
    LET pass   == reqs[n].passes[p]
        st     == pass.stages
        mapper == pass.mapper
    IN  /\ st # <<>> /\ st[1] = "cookie"
        /\ \A i, j \in DOMAIN st : i < j => StageRank(st[i]) < StageRank(st[j])
        /\ pass.at \in {"form", "body", "store", "invoked"} =>
             st[Len(st)] = StageOf(pass.at)
        /\ \A i \in DOMAIN st :
             /\ st[i] = "file" => mapper.file
             /\ st[i] = "body" => mapper.post # "none"
             /\ st[i] = "session" => mapper.session
             /\ st[i] = "invoke" => i = Len(st) /\ pass.at = "invoked"
        /\ pass.at = "invoked" =>
             /\ reqs[n].cookies
             /\ (mapper.file \/ mapper.post # "none") => reqs[n].body # "undefined"
             /\ mapper.session => reqs[n].session.has
             /\ (\E i \in DOMAIN st : st[i] = "session") => reqs[n].session.val # 0

\* a rule with a post mode and a session went through cookie, body and a
\* session read from the file store before its handler was entered
C5_Witness ==
  \E n \in OpenReqs : \E p \in Passes(n) :
    /\ reqs[n].passes[p].stages = <<"cookie", "body", "session", "invoke">>
    /\ SessionStore = "FileStore"
    /\ reqs[n].gets = 1
    /\ ~reqs[n].created

\* the request's _wsid cookie is absent or not of the configured length
NoUsableCookie(n) ==
  reqs[n].cookie = NoCookie \/ Len(reqs[n].cookie) # Settings.sessionLength

\* an id as newID makes them at time t
IsNewID(sid, t) ==
  /\ Len(sid) = Settings.sessionLength
  /\ SubSeq(sid, 1, Len(Base36(t)) + 1) = Base36(t) \o <<"-">>

\* C9: when a session-requiring rule processes a request whose _wsid cookie
\* is absent or of the wrong length, SessionStore.get is not called, a new id
\* is generated, exactly one response cookie is queued and it carries that
\* id, and the session the handler finds attached holds a last-access time
\* and nothing else.
C9_CreationPath ==
  \A n \in OpenReqs : \A p \in Passes(n) :
    LET pass == reqs[n].passes[p]
    IN  (pass.mapper.session /\ NoUsableCookie(n)) =>
          /\ reqs[n].gets = 0
          /\ reqs[n].checkedAt = 0
          /\ pass.at = "invoked" =>
               /\ reqs[n].created
               /\ reqs[n].session.has
               /\ reqs[n].session.sid # reqs[n].cookie
               /\ IsNewID(reqs[n].session.sid, pass.seen.last)
               /\ reqs[n].res.cookies =
                    <<[name |-> sidKey, value |-> reqs[n].session.sid]>>
               /\ pass.seen.last # 0
               /\ pass.seen = NewSessionObject(pass.seen.last)
          /\ pass.at # "invoked" => reqs[n].res.cookies = <<>>

\* a request with a _wsid cookie of the wrong length was answered after an
\* earlier request had been given a session
C9_Witness ==
  \E n \in OpenReqs : \E p \in Passes(n) :
    /\ n > 1
    /\ reqs[n].cookie = <<"x">>
    /\ reqs[n].passes[p].at = "invoked"
    /\ reqs[n].res.ends = 1
    /\ reqs[1].created

\* request a created a session, put a value in it and was answered with the
\* session's cookie; request b is the next to present that cookie, the id was
\* given to no one else, and b's session check ran within the timeout of the
\* last access request a stored
RoundTripCase(a, b, p) ==
  LET sid == reqs[a].session.sid
  IN  /\ a < b
      /\ reqs[a].created
      /\ reqs[a].res.ends >= 1
      /\ \E k \in Keys : reqs[a].stored.data[k] # Unset
      /\ Issued(a) = {sid}
      /\ reqs[b].cookie = sid
      /\ \A m \in OpenReqs \ {a, b} :
           reqs[m].cookie # sid /\ (reqs[m].created => reqs[m].session.sid # sid)
      /\ reqs[b].passes[p].mapper.session
      /\ reqs[b].passes[p].at = "invoked"
      /\ reqs[b].checkedAt - reqs[a].stored.last <= Settings.sessionTimeout

\* request b got the session of request a: the same id, the stored keys, a
\* last-access time of its own and no cookie
RoundTripHolds(a, b, p) ==
  /\ reqs[b].session.sid = reqs[a].session.sid
  /\ ~reqs[b].created
  /\ reqs[b].passes[p].seen.data = reqs[a].stored.data
  /\ reqs[b].passes[p].seen.last = reqs[b].checkedAt
  /\ reqs[b].res.cookies = <<>>

\* C10: a request that presents, within the timeout, the session cookie of an
\* earlier request that created a session, set a key and was answered gets
\* that session: the same id, the key's value, the last-access time
\* refreshed, no new session cookie; for the memory store and the file store.
C10_RoundTrip ==
  \A a, b \in OpenReqs : \A p \in Passes(b) :
    RoundTripCase(a, b, p) => RoundTripHolds(a, b, p)

\* C10, the memory store alone: the round trip holds
C10_MemoryRoundTrip ==
  SessionStore = "MemoryStore" =>
    \A a, b \in OpenReqs : \A p \in Passes(b) :
      RoundTripCase(a, b, p) => RoundTripHolds(a, b, p)

\* the round trip's case happens with the file store, the write of the first
\* request's session having landed before the second request's read
C10_Witness ==
  \E a, b \in OpenReqs : \E p \in Passes(b) :
    RoundTripCase(a, b, p) /\ RoundTripHolds(a, b, p) /\ SessionStore = "FileStore"


\* ------------------------------------------------------------------------
\* Claims about session expiry and write-back (checked under SpecExpiry and
\* SpecSession)
\* ------------------------------------------------------------------------

\* pass p of request n ran the session stage on a well-formed cookie and the
\* store handed over nothing (an object with no last-access time) or a
\* session accessed longer ago than the timeout; the handler was entered
StaleCase(n, p) ==
  /\ reqs[n].passes[p].mapper.session
  /\ \E i \in DOMAIN reqs[n].passes[p].stages : reqs[n].passes[p].stages[i] = "session"
  /\ reqs[n].passes[p].at = "invoked"
  /\ ~NoUsableCookie(n)
  /\ reqs[n].gets = 1
  /\ \/ reqs[n].got.last = 0
     \/ reqs[n].checkedAt - reqs[n].got.last > Settings.sessionTimeout

C12_WriteBackOnce ==
  \A n \in OpenReqs :
    reqs[n].session.has =>
      reqs[n].updates = IF reqs[n].res.ends >= 1 THEN 1 ELSE 0

\* a handler ended the response of a request with a session once, and the
\* session was written once
C12_Witness ==
  \E n \in OpenReqs :
    /\ reqs[n].session.has
    /\ reqs[n].res.ends = 1
    /\ reqs[n].updates = 1


\* ------------------------------------------------------------------------
\* Claims about the memory store's sweep (checked under SpecSweep)
\* ------------------------------------------------------------------------

\* how long ago the session stored under sid was last accessed
AgeOf(sid) == now - heap[list[sid]].last

\* C13: when clearHandler has run, the memory store holds no entry whose last
\* access is more than twice the session timeout in the past.
C13_SweepRemovesStale ==
  sweep.at = now =>
    \A sid \in DOMAIN list : AgeOf(sid) <= 2 * Settings.sessionTimeout

\* clearHandler ran over a list that held an entry older than twice the
\* timeout
C13_Witness ==
  /\ sweep.at = now
  /\ \E n \in OpenReqs :
       reqs[n].res.ends >= 1 /\ now - reqs[n].stored.last > 2 * Settings.sessionTimeout

\* C14: clearHandler deletes no entry whose last access is within twice the
\* session timeout; so none that the validity check of a request (age within
\* the timeout) would accept.
C14_SweepKeepsFresh ==
  \A e \in sweep.gone :
    e.last # 0 =>
      /\ e.at - e.last > 2 * Settings.sessionTimeout
      /\ e.at - e.last > Settings.sessionTimeout

\* clearHandler ran over an entry older than the timeout and within twice the
\* timeout, and the entry is still there
C14_Witness ==
  /\ sweep.at = now
  /\ \E sid \in DOMAIN list :
       /\ AgeOf(sid) > Settings.sessionTimeout
       /\ AgeOf(sid) <= 2 * Settings.sessionTimeout

\* ------------------------------------------------------------------------
\* Claims about Array expressions (checked under SpecList)
\* ------------------------------------------------------------------------

\* the positions of the elements of the Array that match the request
Hits ==
  {i \in 1..Len(mExpr) : Truthy(matchString(mUrl, mStrict, mExpr[i]))}

FirstHit == CHOOSE i \in Hits : \A j \in Hits : i <= j

\* C22: a rule with an Array expression matches iff at least one element
\* matches; matchString is called on the elements in order up to the first
\* matching one and no further; req.params afterwards is req.params before
\* with that element's parameters merged, and unchanged when nothing matches
C22_ListMatch ==
  mRes.op = "match" =>
    /\ mRes.res = (Hits # {})
    /\ Hits = {} => mRes.calls = Len(mExpr) /\ mRes.params = mRes.before
    /\ Hits # {} =>
         /\ mRes.calls = FirstHit
         /\ mRes.params =
              MergeParams(mRes.before, matchString(mUrl, mStrict, mExpr[FirstHit]))

\* ["/:a", "/:b"] matched "/m": only a was merged, matchString ran once
C22_Witness ==
  /\ mRes.op = "match"
  /\ mExpr = << <<"/", ":", "a">>, <<"/", ":", "b">> >>
  /\ mUrl = <<"/", "m">>
  /\ mRes.before = <<>>
  /\ mRes.res
  /\ mRes.calls = 1
  /\ mRes.params = [n \in {<<"a">>} |-> <<"m">>]

\* ------------------------------------------------------------------------
\* Claims about the length of session ids (checked under SpecNewID)
\* ------------------------------------------------------------------------

\* request n presents the id an earlier response set as its _wsid cookie
ServerIssued(n) ==
  \E m \in 1..(n - 1) : reqs[m].open /\ reqs[n].cookie \in Issued(m)

\* C23: every id newID() makes has exactly Settings.sessionLength
\* characters, for every session length and server identifier, and a cookie
\* carrying a server-issued id passes the length check of the next request
\* (the store is asked for it)
C23_IdLength ==
  \A n \in OpenReqs :
    /\ reqs[n].created => Len(reqs[n].session.sid) = Settings.sessionLength
    /\ ServerIssued(n) => reqs[n].gets > 0

\* a session was created under a server identifier that is not empty and its
\* id was presented by the next request
C23_Witness ==
  \E n \in OpenReqs :
    /\ Settings.serverID # <<>>
    /\ ServerIssued(n)
    /\ reqs[n].session.has

\* ------------------------------------------------------------------------
\* Claims about handlers that throw (checked under SpecThrow)
\* ------------------------------------------------------------------------

\* C24: a value thrown by a rule's handler during its invocation never
\* leaves the pipeline: it is caught and the response is ended, with the
\* <pre>-wrapped message when Settings.showError is set and with an empty body
\* otherwise
C24_ThrowCaught ==
  \A n \in OpenReqs : \A k \in DOMAIN reqs[n].throws :
    /\ ~reqs[n].throws[k].escaped
    /\ reqs[n].res.ends > 0
    /\ \E j \in DOMAIN reqs[n].res.bodies :
         reqs[n].res.bodies[j] = IF Settings.showError THEN ErrorBody ELSE NoBody

\* a handler threw an Error before anything had ended the response, the
\* response was ended with the error page, and a later request was taken
C24_Witness ==
  /\ Settings.showError
  /\ reqs[1].open /\ reqs[2].open
  /\ Len(reqs[1].throws) = 1
  /\ reqs[1].throws[1].value = "Error"
  /\ reqs[1].res.body = ErrorBody
  /\ reqs[2].res.ends > 0

\* ------------------------------------------------------------------------
\* Claims about failing session I/O (checked under SpecFault)
\* ------------------------------------------------------------------------

\* C25: a failing read, write or delete of the file store never raises an
\* exception: after a failed read the request has an empty, newly created
\* session, and a failed write or delete leaves no uncaught exception behind
C25_FaultsContained ==
  /\ uncaught = <<>>
  /\ \A n \in OpenReqs :
       reqs[n].readErrs > 0 =>
         /\ reqs[n].got = EmptyObject
         /\ reqs[n].created
         /\ \A k \in Keys : heap[reqs[n].session.val].data[k] = Unset

\* the read of an existing session file failed and the request went on with
\* a new session
C25_Witness ==
  \E n \in OpenReqs :
    /\ reqs[n].readErrs > 0
    /\ reqs[n].cookie = OldSid
    /\ OldSid \in DOMAIN files
    /\ reqs[n].created
    /\ reqs[n].res.ends > 0

\* ------------------------------------------------------------------------
\* Claims about not-found conditions (checked under LiveNotFound)
\* ------------------------------------------------------------------------

\* C26: a request is eventually answered, whatever file, template or include
\* its serving finds missing
C26_EventuallyAnswered ==
  \A n \in {1} : reqs[n].open ~> reqs[n].res.ends > 0

\* the static resolver found no file and answered with the 404 page
C26_Witness ==
  /\ reqs[1].open
  /\ reqs[1].url = UnboundUrl
  /\ reqs[1].stat = NoSuchPath
  /\ reqs[1].res.ends > 0
  /\ reqs[1].res.statusCode = 404

\* ------------------------------------------------------------------------
\* Claims about repeated stages and repeated next() calls (checked under
\* SpecBefore and Spec)
\* ------------------------------------------------------------------------

\* the runs of Parser for request n that entered the stage
Entered(n, stage) ==
  {p \in Passes(n) : \E k \in DOMAIN reqs[n].passes[p].stages :
                        reqs[n].passes[p].stages[k] = stage}

\* C21: across all the rules one request passes through, the request stream
\* is consumed at most once, by the file parse or by the body parse, and at
\* most one run of Parser creates and hydrates a session; later rules reuse
\* what is attached.
C21_StagesOnce ==
  \A n \in OpenReqs :
    /\ reqs[n].bodyReads <= 1
    /\ Cardinality(Entered(n, "file") \cup Entered(n, "body")) <= 1
    /\ Cardinality(Entered(n, "session")) <= 1

\* a filter and a handler that both ask for a session were passed through,
\* and the handler also for the body
C21_Witness ==
  \E n \in OpenReqs : \E p, q \in Passes(n) :
    /\ p < q
    /\ reqs[n].passes[p].mapper.session /\ reqs[n].passes[q].mapper.session
    /\ reqs[n].passes[q].mapper.post # "none"
    /\ reqs[n].passes[p].at = "invoked" /\ reqs[n].passes[q].at = "invoked"

\* C27: however often filter handlers call next() on a request's chain, the
\* chain's callback runs at most once, so at most one handler (or the static
\* resolver) is dispatched for the request
C27_CallbackOnce ==
  \A n \in OpenReqs : Len(reqs[n].dispatched) <= 1

\* a filter handler called next() a second time
C27_Witness ==
  \E n \in OpenReqs : \E p \in Passes(n) :
    /\ reqs[n].passes[p].reg = "filter"
    /\ reqs[n].passes[p].nexts >= 2

\* ------------------------------------------------------------------------
\* Claims about the session cookie (checked under SpecCookie)
\* ------------------------------------------------------------------------

\* C28: when a session was created for a request and the response is
\* complete, the response carries a Set-Cookie header with the new session
\* id, whichever way the response was completed
C28_CookieSent ==
  \A n \in OpenReqs :
    (reqs[n].created /\ reqs[n].res.ends > 0) =>
      \E k \in DOMAIN reqs[n].res.setCookie :
        reqs[n].res.setCookie[k].value = reqs[n].session.sid

\* a session was created and the handler's res.end completed the response
\* with the cookie
C28_Witness ==
  \E n \in OpenReqs :
    /\ reqs[n].created
    /\ reqs[n].res.body = UserBody
    /\ Len(reqs[n].res.setCookie) = 1
    /\ reqs[n].res.setCookie[1].value = reqs[n].session.sid

\* ------------------------------------------------------------------------
\* Claims about concurrent session updates (checked under SpecRace)
\* ------------------------------------------------------------------------

\* what the store holds for OldSid
StoredOld ==
  IF SessionStore = "MemoryStore" THEN heap[list[OldSid]] ELSE files[OldSid]

\* requests 1 and 2 carried OldSid, each set its key, both responses are
\* complete and every write of the store is done
BothDone ==
  /\ fsOps = {}
  /\ \A n \in {1, 2} :
       /\ reqs[n].open
       /\ reqs[n].cookie = OldSid
       /\ ~reqs[n].created
       /\ reqs[n].sets = {KeyOf(n)}
       /\ reqs[n].res.ends > 0

\* C29: when two requests carrying the same valid session id have each set
\* a different key and both responses are complete, the store's session for
\* that id has both keys, with the memory store and with the file store
C29_NoLostUpdate ==
  BothDone => \A n \in {1, 2} : StoredOld.data[KeyOf(n)] # Unset

\* with the memory store both keys are in the stored session
C29_Witness ==
  /\ SessionStore = "MemoryStore"
  /\ BothDone
  /\ \A n \in {1, 2} : StoredOld.data[KeyOf(n)] # Unset

====
